---- MODULE Spec2Model ----
(***************************************************************************)
(* Model of the voice command parser of VoiceTaskTracker                   *)
(* (src/unnamed/part_000: parseRelativeDate, parsePriority, parseStatus,   *)
(* extractTaskTitle, parseVoiceCommand, parseTaskFromVoice).               *)
(*                                                                         *)
(* Texts are strings; the regular expressions of the source are values     *)
(* (Lit, Cls, Cat, Alt, Rep, Grp, Bnd, Bol, Eol) run by a backtracking     *)
(* matcher that keeps JavaScript's order of preference: leftmost start,    *)
(* greedy quantifiers, alternatives left to right.                         *)
(***************************************************************************)
EXTENDS Integers, Sequences, FiniteSets, TLC

(***************************************************************************)
(* Characters                                                              *)
(***************************************************************************)
Digits == {"0", "1", "2", "3", "4", "5", "6", "7", "8", "9"}

LowerLetters == {"a", "b", "c", "d", "e", "f", "g", "h", "i", "j", "k", "l", "m",
                 "n", "o", "p", "q", "r", "s", "t", "u", "v", "w", "x", "y", "z"}

UpperLetters == {"A", "B", "C", "D", "E", "F", "G", "H", "I", "J", "K", "L", "M",
                 "N", "O", "P", "Q", "R", "S", "T", "U", "V", "W", "X", "Y", "Z"}

LowerOf == [c \in UpperLetters |->
              CASE c = "A" -> "a" [] c = "B" -> "b" [] c = "C" -> "c" [] c = "D" -> "d"
                [] c = "E" -> "e" [] c = "F" -> "f" [] c = "G" -> "g" [] c = "H" -> "h"
                [] c = "I" -> "i" [] c = "J" -> "j" [] c = "K" -> "k" [] c = "L" -> "l"
                [] c = "M" -> "m" [] c = "N" -> "n" [] c = "O" -> "o" [] c = "P" -> "p"
                [] c = "Q" -> "q" [] c = "R" -> "r" [] c = "S" -> "s" [] c = "T" -> "t"
                [] c = "U" -> "u" [] c = "V" -> "v" [] c = "W" -> "w" [] c = "X" -> "x"
                [] c = "Y" -> "y" [] c = "Z" -> "z"]

UpperOf == [c \in LowerLetters |->
              CASE c = "a" -> "A" [] c = "b" -> "B" [] c = "c" -> "C" [] c = "d" -> "D"
                [] c = "e" -> "E" [] c = "f" -> "F" [] c = "g" -> "G" [] c = "h" -> "H"
                [] c = "i" -> "I" [] c = "j" -> "J" [] c = "k" -> "K" [] c = "l" -> "L"
                [] c = "m" -> "M" [] c = "n" -> "N" [] c = "o" -> "O" [] c = "p" -> "P"
                [] c = "q" -> "Q" [] c = "r" -> "R" [] c = "s" -> "S" [] c = "t" -> "T"
                [] c = "u" -> "U" [] c = "v" -> "V" [] c = "w" -> "W" [] c = "x" -> "X"
                [] c = "y" -> "Y" [] c = "z" -> "Z"]

\* \s of a JavaScript regular expression, and the characters String.trim removes
WhiteSpace == {" ", "\t", "\n"}

\* the line terminators "." does not match
LineTerminators == {"\n"}

\* \w
WordChars == LowerLetters \cup UpperLetters \cup Digits \cup {"_"}

IsWordChar(c) == c \in WordChars

\* the character after the first i characters of s ("" past the end)
CharAt(s, i) == IF i < Len(s) THEN SubSeq(s, i + 1, i + 1) ELSE ""

ToLowerChar(c) == IF c \in UpperLetters THEN LowerOf[c] ELSE c

ToUpperChar(c) == IF c \in LowerLetters THEN UpperOf[c] ELSE c

RECURSIVE toLowerCase(_)
\* String.prototype.toLowerCase
toLowerCase(s) ==
  IF Len(s) <= 1 THEN ToLowerChar(s)
  ELSE toLowerCase(SubSeq(s, 1, Len(s) \div 2))
         \o toLowerCase(SubSeq(s, Len(s) \div 2 + 1, Len(s)))

RECURSIVE TrimStart(_)
TrimStart(s) ==
  IF s # "" /\ SubSeq(s, 1, 1) \in WhiteSpace THEN TrimStart(SubSeq(s, 2, Len(s))) ELSE s

RECURSIVE TrimEnd(_)
TrimEnd(s) ==
  IF s # "" /\ SubSeq(s, Len(s), Len(s)) \in WhiteSpace
  THEN TrimEnd(SubSeq(s, 1, Len(s) - 1)) ELSE s

\* String.prototype.trim
trim(s) == TrimEnd(TrimStart(s))

\* title.charAt(0).toUpperCase() + title.slice(1)
Capitalize(s) ==
  IF Len(s) > 0 THEN ToUpperChar(SubSeq(s, 1, 1)) \o SubSeq(s, 2, Len(s)) ELSE s

(***************************************************************************)
(* Regular expressions                                                     *)
(***************************************************************************)
Lit(w) == [t |-> "lit", w |-> w]
Cls(c) == [t |-> "cls", c |-> c]
Cat(xs) == [t |-> "cat", xs |-> xs]
Alt(xs) == [t |-> "alt", xs |-> xs]
Rep(x, lo, hi) == [t |-> "rep", x |-> x, lo |-> lo, hi |-> hi]
Grp(n, x) == [t |-> "grp", n |-> n, x |-> x]
Bnd == [t |-> "bnd"]
Bol == [t |-> "bol"]
Eol == [t |-> "eol"]

Opt(x) == Rep(x, 0, 1)
\* hi < 0: no upper limit
Plus(x) == Rep(x, 1, -1)
Star(x) == Rep(x, 0, -1)
\* the classes the patterns use
Sp == Cls("s")
Dg == Cls("d")
Dot == Cls("dot")
\* [,\s] and [,.\s]
CommaSp == Cls("comma_s")
PunctSp == Cls("punct_s")
\* "\s+" and "\s*"
Sps == Plus(Sp)
Sp0 == Star(Sp)
RECURSIVE Lits(_)
Lits(ws) == IF ws = <<>> THEN <<>> ELSE <<Lit(Head(ws))>> \o Lits(Tail(ws))

\* one of several words: "w1|w2|..."
Words(ws) == Alt(Lits(ws))

InClass(c, ch) ==
  /\ ch # ""
  /\ CASE c = "s" -> ch \in WhiteSpace
       [] c = "d" -> ch \in Digits
       [] c = "dot" -> ch \notin LineTerminators
       [] c = "comma_s" -> ch = "," \/ ch \in WhiteSpace
       [] c = "punct_s" -> ch = "," \/ ch = "." \/ ch \in WhiteSpace

\* \b after the first i characters of s
AtBoundary(s, i) ==
  (i > 0 /\ IsWordChar(CharAt(s, i - 1))) # (i < Len(s) /\ IsWordChar(CharAt(s, i)))

NoGroups == <<<<-1, -1>>, <<-1, -1>>, <<-1, -1>>>>

\* the positions 0..Len(s) of s that are word boundaries, in order
Boundaries(s) ==
  SelectSeq([k \in 1..(Len(s) + 1) |-> k - 1], LAMBDA i : AtBoundary(s, i))

\* A text as the matcher reads it: case-folded (every pattern of the source has
\* the i flag, and none holds a capital), with its word boundaries
Subject(text) ==
  LET Read(ls, bnd) ==
        [s |-> ls, bnd |-> bnd,
         \* the characters that follow a word boundary
         heads |-> {CharAt(ls, bnd[k]) : k \in 1..Len(bnd)} \ {""}]
      Folded(ls) == Read(ls, Boundaries(ls))
  IN Folded(toLowerCase(text))

\* group n closes: it holds what was matched since position from
MClose(rs, n, from) ==
  [j \in 1..Len(rs) |-> <<rs[j][1], [rs[j][2] EXCEPT ![n] = <<from, rs[j][1]>>]>>]

RECURSIVE M(_, _, _)
RECURSIVE MCat(_, _, _, _)
RECURSIVE MCatAll(_, _, _, _, _, _)
RECURSIVE MAlt(_, _, _, _, _)
RECURSIVE MRep(_, _, _, _)
RECURSIVE MRepAll(_, _, _, _, _, _)

\* The ways r matches the folded text s from the state st = <<position, groups>>,
\* in the order a backtracking matcher tries them; the first is the match
\* JavaScript reports.
M(r, s, st) ==
  CASE r.t = "lit" ->
         IF st[1] + Len(r.w) <= Len(s) /\ SubSeq(s, st[1] + 1, st[1] + Len(r.w)) = r.w
         THEN <<<<st[1] + Len(r.w), st[2]>>>> ELSE <<>>
    [] r.t = "cat" -> MCat(r.xs, 1, s, st)
    [] r.t = "rep" -> MRep(r, 0, s, st)
    [] r.t = "cls" ->
         IF InClass(r.c, CharAt(s, st[1])) THEN <<<<st[1] + 1, st[2]>>>> ELSE <<>>
    [] r.t = "alt" -> MAlt(r.xs, 1, Len(r.xs), s, st)
    [] r.t = "bnd" -> IF AtBoundary(s, st[1]) THEN <<st>> ELSE <<>>
    [] r.t = "grp" -> MClose(M(r.x, s, st), r.n, st[1])
    [] r.t = "bol" -> IF st[1] = 0 THEN <<st>> ELSE <<>>
    [] r.t = "eol" -> IF st[1] = Len(s) THEN <<st>> ELSE <<>>

\* xs[k..] in sequence from st: each way xs[k] matches, in order, followed by
\* the ways the rest matches from there
MCat(xs, k, s, st) ==
  IF k > Len(xs) THEN <<st>>
  ELSE LET rs == M(xs[k], s, st) IN MCatAll(rs, 1, Len(rs), xs, k + 1, s)

\* the ways xs[k..] matches from the states rs[lo..hi], in the order of rs
MCatAll(rs, lo, hi, xs, k, s) ==
  IF lo > hi THEN <<>>
  ELSE IF lo = hi THEN MCat(xs, k, s, rs[lo])
  ELSE LET mid == (lo + hi) \div 2
       IN MCatAll(rs, lo, mid, xs, k, s) \o MCatAll(rs, mid + 1, hi, xs, k, s)

\* the alternatives xs[lo..hi], in order
MAlt(xs, lo, hi, s, st) ==
  IF lo > hi THEN <<>>
  ELSE IF lo = hi THEN M(xs[lo], s, st)
  ELSE LET mid == (lo + hi) \div 2
       IN MAlt(xs, lo, mid, s, st) \o MAlt(xs, mid + 1, hi, s, st)

\* the length of the longest run of characters of class c in s after position i
RunLength(c, s, i) ==
  LET stop == {j \in i..Len(s) : ~InClass(c, CharAt(s, j))}
  IN (CHOOSE j \in stop : \A k \in stop : j <= k) - i

\* a repeated character class: the longest run the limits allow first, then
\* each shorter one
MRepClass(r, s, st) ==
  LET run == RunLength(r.x.c, s, st[1])
      most == IF r.hi >= 0 /\ r.hi < run THEN r.hi ELSE run
  IN IF most < r.lo THEN <<>>
     ELSE [k \in 1..(most - r.lo + 1) |-> <<st[1] + most - k + 1, st[2]>>]

\* greedy: one more repetition first, then stopping here
MRep(r, n, s, st) ==
  IF n = 0 /\ r.x.t = "cls" THEN MRepClass(r, s, st)
  ELSE (IF r.hi < 0 \/ n < r.hi
        THEN LET rs == M(r.x, s, st) IN MRepAll(rs, 1, Len(rs), r, n + 1, s)
        ELSE <<>>)
         \o (IF n >= r.lo THEN <<st>> ELSE <<>>)

MRepAll(rs, lo, hi, r, n, s) ==
  IF lo > hi THEN <<>>
  ELSE IF lo = hi THEN MRep(r, n, s, rs[lo])
  ELSE LET mid == (lo + hi) \div 2
       IN MRepAll(rs, lo, mid, r, n, s) \o MRepAll(rs, mid + 1, hi, r, n, s)

(***************************************************************************)
(* What the matcher knows of a pattern before it runs it, as a regular      *)
(* expression engine does: the anchor it opens with and the characters a    *)
(* match can begin with.  It only spares attempts that cannot match.        *)
(***************************************************************************)
\* the characters of the texts the model runs on
Alphabet == WordChars \cup WhiteSpace \cup {",", ".", "'", ":", "/", "-", "!", "?"}

RECURSIVE Nullable(_)
RECURSIVE NullableAll(_, _)
RECURSIVE NullableSome(_, _)
\* whether r can match without taking a character
Nullable(r) ==
  CASE r.t = "lit" -> r.w = ""
    [] r.t = "cls" -> FALSE
    [] r.t = "cat" -> NullableAll(r.xs, 1)
    [] r.t = "alt" -> NullableSome(r.xs, 1)
    [] r.t = "rep" -> r.lo = 0 \/ Nullable(r.x)
    [] r.t = "grp" -> Nullable(r.x)
    [] OTHER -> TRUE

NullableAll(xs, k) == k > Len(xs) \/ (Nullable(xs[k]) /\ NullableAll(xs, k + 1))

NullableSome(xs, k) == k <= Len(xs) /\ (Nullable(xs[k]) \/ NullableSome(xs, k + 1))

RECURSIVE Begins(_, _)
RECURSIVE BeginsCat(_, _, _)
RECURSIVE BeginsAlt(_, _, _)
\* whether a match of r that takes a character can begin with ch
Begins(r, ch) ==
  CASE r.t = "lit" -> r.w # "" /\ SubSeq(r.w, 1, 1) = ch
    [] r.t = "cls" -> InClass(r.c, ch)
    [] r.t = "cat" -> BeginsCat(r.xs, 1, ch)
    [] r.t = "alt" -> BeginsAlt(r.xs, 1, ch)
    [] r.t = "rep" -> Begins(r.x, ch)
    [] r.t = "grp" -> Begins(r.x, ch)
    [] OTHER -> FALSE

BeginsCat(xs, k, ch) ==
  /\ k <= Len(xs)
  /\ \/ Begins(xs[k], ch)
     \/ Nullable(xs[k]) /\ BeginsCat(xs, k + 1, ch)

BeginsAlt(xs, k, ch) == k <= Len(xs) /\ (Begins(xs[k], ch) \/ BeginsAlt(xs, k + 1, ch))

\* the pattern /x1 x2 .../ made ready for the matcher
Re(xs) ==
  [x |-> Cat(xs),
   anchor |-> IF xs[1].t \in {"bnd", "bol"} THEN xs[1].t ELSE "none",
   nullable |-> Nullable(Cat(xs)),
   first |-> {ch \in Alphabet : Begins(Cat(xs), ch)}]

\* whether a match of p in the folded text s may start at position i
MayStartAt(p, s, i) ==
  \/ p.nullable
  \/ LET ch == CharAt(s, i) IN ch # "" /\ (ch \in p.first \/ ch \notin Alphabet)

NoMatch == [found |-> FALSE, start |-> 0, end |-> 0, groups |-> NoGroups]

Try(p, s, i) ==
  LET First(rs) ==
        IF rs = <<>> THEN NoMatch
        ELSE [found |-> TRUE, start |-> i, end |-> rs[1][1], groups |-> rs[1][2]]
  IN IF ~MayStartAt(p, s, i) THEN NoMatch ELSE First(M(p.x, s, <<i, NoGroups>>))

\* the match of p that starts at the least of the positions cand, NoMatch when
\* it matches at none
FindAmong(p, s, cand) ==
  LET Leftmost(tries) ==
        LET hits == {i \in cand : tries[i].found} IN
        IF hits = {} THEN NoMatch
        ELSE tries[CHOOSE i \in hits : \A j \in hits : i <= j]
  IN Leftmost([i \in cand |-> Try(p, s, i)])

\* whether some word boundary of the subject is followed by a character a match
\* of p can begin with
MayStartSomewhere(p, subject) ==
  \/ p.nullable
  \/ \E ch \in subject.heads : ch \in p.first \/ ch \notin Alphabet

\* the leftmost match of p in the subject at or after position from: a pattern
\* that opens with ^ can start at 0 only, one that opens with \b at a boundary
Find(p, subject, from) ==
  FindAmong(p, subject.s,
            CASE p.anchor = "bol" -> {0} \cap from..Len(subject.s)
              [] p.anchor = "bnd" ->
                   IF MayStartSomewhere(p, subject)
                   THEN {subject.bnd[k] : k \in 1..Len(subject.bnd)} \cap from..Len(subject.s)
                   ELSE {}
              [] OTHER -> from..Len(subject.s))

\* String.prototype.match (no g flag) and RegExp.prototype.exec
Exec(p, text) == Find(p, Subject(text), 0)

\* RegExp.prototype.test on a subject; the g flag's lastIndex plays no part:
\* every pattern is a literal evaluated anew by each call and tested once
Test(p, subject) == Find(p, subject, 0).found

\* m[n] of a match m in text, "" when the group took no part
Group(text, m, n) ==
  IF m.groups[n][1] < 0 THEN "" ELSE SubSeq(text, m.groups[n][1] + 1, m.groups[n][2])

HasGroup(m, n) == m.groups[n][1] >= 0

RECURSIVE ReplaceAllFrom(_, _, _, _, _)
ReplaceAllFrom(text, subject, p, by, i) ==
  LET Put(m) ==
        IF ~m.found THEN SubSeq(text, i + 1, Len(text))
        ELSE SubSeq(text, i + 1, m.start) \o by
               \o (IF m.end > m.start THEN ReplaceAllFrom(text, subject, p, by, m.end)
                   ELSE IF m.end < Len(text)
                        THEN CharAt(text, m.end)
                               \o ReplaceAllFrom(text, subject, p, by, m.end + 1)
                        ELSE "")
  IN Put(Find(p, subject, i))

\* text.replace(p, by) for p with the g flag: every match is replaced, each
\* search starting where the previous match ended
ReplaceAllBy(text, p, by) == ReplaceAllFrom(text, Subject(text), p, by, 0)

ReplaceAll(text, p) == ReplaceAllBy(text, p, "")

\* ReplaceFirst on a pattern that had the g flag
ReplaceFirst_global(text, p) == ReplaceAll(text, p)

\* text.replace(p, '') for p without the g flag: the first match is removed
ReplaceFirst(text, p) ==
  LET Cut(m) ==
        IF m.found THEN SubSeq(text, 1, m.start) \o SubSeq(text, m.end + 1, Len(text))
        ELSE text
  IN Cut(Exec(p, text))

(***************************************************************************)
(* Numbers and their decimal notation                                      *)
(***************************************************************************)
DigitValue(c) ==
  CASE c = "0" -> 0 [] c = "1" -> 1 [] c = "2" -> 2 [] c = "3" -> 3 [] c = "4" -> 4
    [] c = "5" -> 5 [] c = "6" -> 6 [] c = "7" -> 7 [] c = "8" -> 8 [] c = "9" -> 9

DigitChar(n) == SubSeq("0123456789", n + 1, n + 1)

RECURSIVE parseInt(_)
\* parseInt of a string of decimal digits
parseInt(s) ==
  IF Len(s) = 1 THEN DigitValue(s)
  ELSE 10 * parseInt(SubSeq(s, 1, Len(s) - 1)) + DigitValue(SubSeq(s, Len(s), Len(s)))

RECURSIVE toString(_)
\* Number.prototype.toString of a natural number
toString(n) == IF n < 10 THEN DigitChar(n) ELSE toString(n \div 10) \o DigitChar(n % 10)

\* padStart2 with the padding forgotten
padStart2_unpadded(s) == s

\* s.padStart(2, '0')
padStart2(s) == IF Len(s) < 2 THEN "0" \o s ELSE s

(***************************************************************************)
(* The patterns of parseRelativeDate                                       *)
(***************************************************************************)
\* "(?:w\s+)?"
OptW(w) == Opt(Cat(<<Lit(w), Sps>>))

RECURSIVE Spaced(_)
Spaced(ws) ==
  IF Len(ws) = 1 THEN <<Lit(Head(ws))>> ELSE <<Lit(Head(ws)), Sps>> \o Spaced(Tail(ws))

\* the words ws with "\s+" between them
Ph(ws) == Cat(Spaced(ws))

\* "(?:by\s+)?" and "(?:by\s+|on\s+)?"
ByOpt == OptW("by")
ByOnOpt == Opt(Alt(<<Cat(<<Lit("by"), Sps>>), Cat(<<Lit("on"), Sps>>)>>))

timePatterns == <<
  [pattern |-> Re(<<Bnd, Lit("at"), Sps, Grp(1, Rep(Dg, 1, 2)),
                     Opt(Cat(<<Lit(":"), Grp(2, Rep(Dg, 2, 2))>>)), Sp0,
                     Grp(3, Words(<<"am", "pm">>)), Bnd>>),
   handler |-> "12h", time |-> ""],
  [pattern |-> Re(<<Bnd, Lit("at"), Sps, Grp(1, Rep(Dg, 1, 2)), Lit(":"),
                     Grp(2, Rep(Dg, 2, 2)), Bnd>>),
   handler |-> "24h", time |-> ""],
  [pattern |-> Re(<<Bnd, Grp(1, Words(<<"in the morning", "this morning">>)), Bnd>>),
   handler |-> "fixed", time |-> "09:00"],
  [pattern |-> Re(<<Bnd, Grp(1, Words(<<"in the afternoon", "this afternoon">>)), Bnd>>),
   handler |-> "fixed", time |-> "14:00"],
  [pattern |-> Re(<<Bnd, Grp(1, Words(<<"in the evening", "this evening">>)), Bnd>>),
   handler |-> "fixed", time |-> "18:00"],
  [pattern |-> Re(<<Bnd, Grp(1, Words(<<"at night", "tonight">>)), Bnd>>),
   handler |-> "fixed", time |-> "21:00"],
  [pattern |-> Re(<<Bnd, Grp(1, Words(<<"at noon", "by noon">>)), Bnd>>),
   handler |-> "fixed", time |-> "12:00"],
  [pattern |-> Re(<<Bnd, Grp(1, Lit("morning")), Bnd>>),
   handler |-> "fixed", time |-> "09:00"],
  [pattern |-> Re(<<Bnd, Grp(1, Lit("afternoon")), Bnd>>),
   handler |-> "fixed", time |-> "14:00"],
  [pattern |-> Re(<<Bnd, Grp(1, Lit("evening")), Bnd>>),
   handler |-> "fixed", time |-> "18:00"],
  [pattern |-> Re(<<Bnd, Grp(1, Lit("noon")), Bnd>>),
   handler |-> "fixed", time |-> "12:00"] >>

\* line 20: m[3].toLowerCase() is a TypeError when group 3 took no part
timeHandlerThrows(item, m) == item.handler = "12h" /\ ~HasGroup(m, 3)

\* the handler of a time pattern, applied to the match m of the pattern in ls
timeHandler(item, ls, m) ==
  CASE item.handler = "12h" ->
         LET h0 == parseInt(Group(ls, m, 1))
             minutes == IF HasGroup(m, 2) THEN parseInt(Group(ls, m, 2)) ELSE 0
             period == toLowerCase(Group(ls, m, 3))
             h1 == IF period = "pm" /\ h0 # 12 THEN h0 + 12 ELSE h0
             hours == IF period = "am" /\ h1 = 12 THEN 0 ELSE h1
         IN padStart2(toString(hours)) \o ":" \o padStart2(toString(minutes))
    [] item.handler = "24h" ->
         padStart2(toString(parseInt(Group(ls, m, 1)))) \o ":"
           \o padStart2(toString(parseInt(Group(ls, m, 2))))
    [] item.handler = "fixed" -> item.time

\* /\b(?:by\s+)?next\s+<name>\b/i
nextDay(name, day) ==
  [pattern |-> Re(<<Bnd, ByOpt, Lit("next"), Sps, Lit(name), Bnd>>), day |-> day]

nextDayOfWeekPatterns == <<
  nextDay("monday", 1), nextDay("tuesday", 2), nextDay("wednesday", 3),
  nextDay("thursday", 4), nextDay("friday", 5), nextDay("saturday", 6),
  nextDay("sunday", 0) >>

datePatterns == <<
  [pattern |-> Re(<<Bnd, ByOpt, Grp(1, Lit("today")), Bnd>>), kind |-> "days", days |-> 0],
  [pattern |-> Re(<<Bnd, ByOpt, Grp(1, Lit("tonight")), Bnd>>), kind |-> "days", days |-> 0],
  [pattern |-> Re(<<Bnd, ByOpt, Grp(1, Lit("tomorrow")), Bnd>>), kind |-> "days", days |-> 1],
  [pattern |-> Re(<<Bnd, ByOpt, Grp(1, Lit("day after tomorrow")), Bnd>>),
   kind |-> "days", days |-> 2],
  [pattern |-> Re(<<Bnd, ByOpt, Lit("next"), Sps, Lit("week"), Bnd>>),
   kind |-> "days", days |-> 7],
  [pattern |-> Re(<<Bnd, ByOpt, Lit("next"), Sps, Lit("month"), Bnd>>),
   kind |-> "days", days |-> 30],
  [pattern |-> Re(<<Bnd, Opt(Lit("with")), Lit("in"), Sps, Grp(1, Plus(Dg)), Sps,
                     Lit("day"), Opt(Lit("s")), Bnd>>), kind |-> "ndays", days |-> 0],
  [pattern |-> Re(<<Bnd, Opt(Lit("with")), Lit("in"), Sps, Grp(1, Plus(Dg)), Sps,
                     Lit("week"), Opt(Lit("s")), Bnd>>), kind |-> "nweeks", days |-> 0],
  [pattern |-> Re(<<Bnd, Opt(Lit("with")), Lit("in"), Sps, Grp(1, Plus(Dg)), Sps,
                     Lit("hour"), Opt(Lit("s")), Bnd>>), kind |-> "nhours", days |-> 0],
  [pattern |-> Re(<<Bnd, Lit("end"), Sps, Lit("of"), Sps, OptW("the"), Lit("day"), Bnd>>),
   kind |-> "days", days |-> 0],
  [pattern |-> Re(<<Bnd, Lit("end"), Sps, Lit("of"), Sps, OptW("the"), Lit("week"), Bnd>>),
   kind |-> "endOfWeek", days |-> 0] >>

\* /\b(?:by\s+|on\s+)?this\s+<name>\b/i and /\b(?:by\s+|on\s+)?<name>\b/i
thisDay(name, day) ==
  [pattern |-> Re(<<Bnd, ByOnOpt, Lit("this"), Sps, Lit(name), Bnd>>),
   day |-> day, thisWeek |-> TRUE]

bareDay(name, day) ==
  [pattern |-> Re(<<Bnd, ByOnOpt, Lit(name), Bnd>>), day |-> day, thisWeek |-> FALSE]

dayOfWeekPatterns == <<
  thisDay("monday", 1), thisDay("tuesday", 2), thisDay("wednesday", 3),
  thisDay("thursday", 4), thisDay("friday", 5), thisDay("saturday", 6),
  thisDay("sunday", 0),
  bareDay("monday", 1), bareDay("tuesday", 2), bareDay("wednesday", 3),
  bareDay("thursday", 4), bareDay("friday", 5), bareDay("saturday", 6),
  bareDay("sunday", 0) >>

MonthNames == <<"january", "february", "march", "april", "may", "june", "july",
                "august", "september", "october", "november", "december">>

\* "(?:st|nd|rd|th)?" and "(?:\s*,?\s*(\d{4}))?"
OrdinalOpt == Opt(Words(<<"st", "nd", "rd", "th">>))
YearOpt == Opt(Cat(<<Sp0, Opt(Lit(",")), Sp0, Grp(3, Rep(Dg, 4, 4))>>))

specificDatePatterns == <<
  [pattern |-> Re(<<Bnd, ByOnOpt, Grp(1, Rep(Dg, 1, 2)), Lit("/"), Grp(2, Rep(Dg, 1, 2)),
                     Opt(Cat(<<Lit("/"), Grp(3, Rep(Dg, 2, 4))>>)), Bnd>>),
   handler |-> "numeric"],
  [pattern |-> Re(<<Bnd, ByOnOpt, Grp(1, Words(MonthNames)), Sps, Grp(2, Rep(Dg, 1, 2)),
                     OrdinalOpt, YearOpt, Bnd>>),
   handler |-> "monthDay"],
  [pattern |-> Re(<<Bnd, ByOnOpt, Grp(1, Rep(Dg, 1, 2)), OrdinalOpt, Sps, OptW("of"),
                     Grp(2, Words(MonthNames)), YearOpt, Bnd>>),
   handler |-> "dayMonth"] >>

RECURSIVE FirstMatchIn(_, _, _, _)
\* the first k in lo..hi whose pattern matches the subject, 0 when there is none
FirstMatchIn(patterns, subject, lo, hi) ==
  IF lo > hi THEN 0
  ELSE IF lo = hi THEN (IF Test(patterns[lo].pattern, subject) THEN lo ELSE 0)
  ELSE LET mid == (lo + hi) \div 2
           k == FirstMatchIn(patterns, subject, lo, mid)
       IN IF k # 0 THEN k ELSE FirstMatchIn(patterns, subject, mid + 1, hi)

\* the first k' >= k whose pattern matches the subject, 0 when there is none: the
\* "for (...) { if (match) { ...; break; } }" of every pattern table
FirstMatch(patterns, subject, k) == FirstMatchIn(patterns, subject, k, Len(patterns))

(***************************************************************************)
(* Dates.  An instant is today, the local midnight that starts the         *)
(* reference day, plus a number of days of 24 hours, of hours and of       *)
(* milliseconds, kept apart (their sum in milliseconds is a double in the  *)
(* code and passes 2^31); new Date(year, month, day) is kept as its three  *)
(* arguments.                                                              *)
(***************************************************************************)
NoDate ==
  [k |-> "undefined", days |-> 0, hours |-> 0, ms |-> 0, year |-> 0, month |-> 0, day |-> 0]

Instant(days, hours, ms) ==
  [k |-> "instant", days |-> days, hours |-> hours, ms |-> ms,
   year |-> 0, month |-> 0, day |-> 0]

NewDate(year, month, day) ==
  [k |-> "ymd", days |-> 0, hours |-> 0, ms |-> 0,
   year |-> year, month |-> month, day |-> day]

MsPerHour == 60 * 60 * 1000

\* new Date(today.getTime() + days * 24 * 60 * 60 * 1000)
DaysFromToday(days) == Instant(days, 0, 0)

\* months[name]
MonthIndex(name) == (CHOOSE k \in 1..12 : MonthNames[k] = name) - 1

\* the "next [day]" rule for the pattern's day and today.getDay()
nextDayDaysUntil(day, currentDay) ==
  LET d0 == day - currentDay
      d1 == IF d0 <= 0 THEN d0 + 7 ELSE d0
  IN IF d1 < 7 THEN d1 + 7 ELSE d1

\* dayOfWeekDaysUntil with the "[day]" rule for "this [day]" too
dayOfWeekDaysUntil_ahead(day, currentDay, thisWeek) ==
  IF day - currentDay <= 0 THEN day - currentDay + 7 ELSE day - currentDay

\* the "this [day]" and "[day]" rules
dayOfWeekDaysUntil(day, currentDay, thisWeek) ==
  LET d0 == day - currentDay IN
  IF thisWeek THEN (IF d0 < 0 THEN d0 + 7 ELSE d0)
  ELSE (IF d0 <= 0 THEN d0 + 7 ELSE d0)

\* daysUntilFriday without the "|| 7"
daysUntilFriday_today(currentDay) == (5 - currentDay + 7) % 7

\* (5 - today.getDay() + 7) % 7 || 7
daysUntilFriday(currentDay) ==
  LET d == (5 - currentDay + 7) % 7 IN IF d = 0 THEN 7 ELSE d

\* datePatternDate counting a week as one day
datePatternDate_weekAsDay(item, ls, m, now) ==
  CASE item.kind = "days" -> DaysFromToday(item.days)
    [] item.kind \in {"ndays", "nweeks"} -> DaysFromToday(parseInt(Group(ls, m, 1)))
    [] item.kind = "nhours" -> Instant(0, parseInt(Group(ls, m, 1)), now.ms)
    [] item.kind = "endOfWeek" -> DaysFromToday(daysUntilFriday(now.day))

\* datePatternDate counting the hours from today's midnight instead of now
datePatternDate_fromMidnight(item, ls, m, now) ==
  CASE item.kind = "days" -> DaysFromToday(item.days)
    [] item.kind = "ndays" -> DaysFromToday(parseInt(Group(ls, m, 1)))
    [] item.kind = "nweeks" -> DaysFromToday(parseInt(Group(ls, m, 1)) * 7)
    [] item.kind = "nhours" -> Instant(0, parseInt(Group(ls, m, 1)), 0)
    [] item.kind = "endOfWeek" -> DaysFromToday(daysUntilFriday(now.day))

\* the date a datePatterns item gives for its match m in ls
datePatternDate(item, ls, m, now) ==
  CASE item.kind = "days" -> DaysFromToday(item.days)
    [] item.kind = "ndays" -> DaysFromToday(parseInt(Group(ls, m, 1)))
    [] item.kind = "nweeks" -> DaysFromToday(parseInt(Group(ls, m, 1)) * 7)
    [] item.kind = "nhours" -> Instant(0, parseInt(Group(ls, m, 1)), now.ms)
    [] item.kind = "endOfWeek" -> DaysFromToday(daysUntilFriday(now.day))

\* lines 168 and 179: the month group's toLowerCase() is a TypeError when the
\* group took no part
specificDateThrows(item, m) ==
  \/ item.handler = "monthDay" /\ ~HasGroup(m, 1)
  \/ item.handler = "dayMonth" /\ ~HasGroup(m, 2)

\* the handlers of specificDatePatterns
specificDate(item, ls, m, now) ==
  CASE item.handler = "numeric" ->
         LET y == Group(ls, m, 3) IN
         NewDate(IF HasGroup(m, 3)
                 THEN (IF Len(y) = 2 THEN 2000 + parseInt(y) ELSE parseInt(y))
                 ELSE now.year,
                 parseInt(Group(ls, m, 1)) - 1,
                 parseInt(Group(ls, m, 2)))
    [] item.handler = "monthDay" ->
         NewDate(IF HasGroup(m, 3) THEN parseInt(Group(ls, m, 3)) ELSE now.year,
                 MonthIndex(toLowerCase(Group(ls, m, 1))),
                 parseInt(Group(ls, m, 2)))
    [] item.handler = "dayMonth" ->
         NewDate(IF HasGroup(m, 3) THEN parseInt(Group(ls, m, 3)) ELSE now.year,
                 MonthIndex(toLowerCase(Group(ls, m, 2))),
                 parseInt(Group(ls, m, 1)))

\* the time patterns: lines 41-48
parseTime(text, lowerText) ==
  LET Handled(item, m) ==
        [time |-> timeHandler(item, lowerText.s, m),
         cleanedText |-> trim(ReplaceFirst(text, item.pattern)),
         threw |-> timeHandlerThrows(item, m)]
      Hit(k) ==
        IF k = 0 THEN [time |-> "", cleanedText |-> text, threw |-> FALSE]
        ELSE Handled(timePatterns[k], Find(timePatterns[k].pattern, lowerText, 0))
  IN Hit(FirstMatch(timePatterns, lowerText, 1))

\* the "next [day]" patterns: lines 61-73
parseNextDay(cleanedText, lowerText, now) ==
  LET Hit(k) ==
        IF k = 0 THEN [date |-> NoDate, cleanedText |-> cleanedText, threw |-> FALSE]
        ELSE [date |-> DaysFromToday(nextDayDaysUntil(nextDayOfWeekPatterns[k].day, now.day)),
              cleanedText |->
                trim(ReplaceFirst(cleanedText, nextDayOfWeekPatterns[k].pattern)),
              threw |-> FALSE]
  IN Hit(FirstMatch(nextDayOfWeekPatterns, lowerText, 1))

\* parseDatePattern reading the text the earlier rules left instead of lowerText
parseDatePattern_cleaned(d, lowerText, now) ==
  LET Hit(k, left) ==
        IF k = 0 THEN d
        ELSE [date |-> datePatternDate(datePatterns[k], left.s,
                                       Find(datePatterns[k].pattern, left, 0), now),
              cleanedText |-> trim(ReplaceFirst(d.cleanedText, datePatterns[k].pattern)),
              threw |-> FALSE]
      Read(left) == Hit(FirstMatch(datePatterns, left, 1), left)
  IN IF d.date # NoDate THEN d ELSE Read(Subject(d.cleanedText))

\* the relative date patterns, tried when d holds no date yet: lines 76-115
parseDatePattern(d, lowerText, now) ==
  LET Hit(k) ==
        IF k = 0 THEN d
        ELSE [date |-> datePatternDate(datePatterns[k], lowerText.s,
                                       Find(datePatterns[k].pattern, lowerText, 0), now),
              cleanedText |-> trim(ReplaceFirst(d.cleanedText, datePatterns[k].pattern)),
              threw |-> FALSE]
  IN IF d.date # NoDate THEN d ELSE Hit(FirstMatch(datePatterns, lowerText, 1))

\* the day of week patterns, tried when d holds no date yet: lines 118-152
parseDayOfWeek(d, lowerText, now) ==
  LET Hit(k) ==
        IF k = 0 THEN d
        ELSE [date |-> DaysFromToday(dayOfWeekDaysUntil(dayOfWeekPatterns[k].day, now.day,
                                                        dayOfWeekPatterns[k].thisWeek)),
              cleanedText |-> trim(ReplaceFirst(d.cleanedText, dayOfWeekPatterns[k].pattern)),
              threw |-> FALSE]
  IN IF d.date # NoDate THEN d ELSE Hit(FirstMatch(dayOfWeekPatterns, lowerText, 1))

\* the specific date formats, tried when d holds no date yet: lines 155-193
parseSpecificDate(d, lowerText, now) ==
  LET Handled(item, m) ==
        [date |-> specificDate(item, lowerText.s, m, now),
         cleanedText |-> trim(ReplaceFirst(d.cleanedText, item.pattern)),
         threw |-> specificDateThrows(item, m)]
      Hit(k) ==
        IF k = 0 THEN d
        ELSE Handled(specificDatePatterns[k],
                     Find(specificDatePatterns[k].pattern, lowerText, 0))
  IN IF d.date # NoDate THEN d ELSE Hit(FirstMatch(specificDatePatterns, lowerText, 1))

\* parseRelativeDate(text) at the reference instant now; time "" is undefined;
\* lowerText is text.toLowerCase() as the matcher reads it; threw tells that a
\* handler raised a TypeError instead of returning
parseRelativeDate(text, now) ==
  LET Result(t, d) ==
        [date |-> d.date, time |-> t.time, cleanedText |-> d.cleanedText,
         threw |-> t.threw \/ d.threw]
      Dated(t, lowerText) ==
        Result(t, parseSpecificDate(
                    parseDayOfWeek(
                      parseDatePattern(parseNextDay(t.cleanedText, lowerText, now),
                                       lowerText, now),
                      lowerText, now),
                    lowerText, now))
      Timed(lowerText) == Dated(parseTime(text, lowerText), lowerText)
  IN Timed(Subject(text))

(***************************************************************************)
(* parsePriority                                                           *)
(***************************************************************************)
\* "(?:it'?s?\s+)?"
ItsOpt == Opt(Cat(<<Lit("it"), Opt(Lit("'")), Opt(Lit("s")), Sps>>))

\* every pattern of the two tables has the flags g and i
highPriorityPatterns == <<
  [pattern |-> Re(<<Bnd, ItsOpt, OptW("a"), Lit("high"), Sps, Lit("priority"), Bnd>>)],
  [pattern |-> Re(<<Bnd, ItsOpt, OptW("very"), Lit("urgent"), Bnd>>)],
  [pattern |-> Re(<<Bnd, ItsOpt, OptW("very"), Lit("important"), Bnd>>)],
  [pattern |-> Re(<<Bnd, ItsOpt, Lit("critical"), Bnd>>)],
  [pattern |-> Re(<<Bnd, Lit("asap"), Bnd>>)],
  [pattern |-> Re(<<Bnd, Lit("immediately"), Bnd>>)],
  [pattern |-> Re(<<Bnd, Lit("right"), Sps, Lit("away"), Bnd>>)],
  [pattern |-> Re(<<Bnd, Words(<<"top", "highest">>), Sps, Lit("priority"), Bnd>>)],
  [pattern |-> Re(<<Bnd, Lit("must"), Sps, OptW("be"),
                     Words(<<"done", "do", "finish", "complete">>)>>)],
  [pattern |-> Re(<<Bnd, Lit("priority"), Sp0, Lit(":"), Sp0, Lit("high"), Bnd>>)] >>

lowPriorityPatterns == <<
  [pattern |-> Re(<<Bnd, ItsOpt, OptW("a"), Lit("low"), Sps, Lit("priority"), Bnd>>)],
  [pattern |-> Re(<<Bnd, ItsOpt, Lit("not"), Sps, OptW("that"), Lit("urgent"), Bnd>>)],
  [pattern |-> Re(<<Bnd, ItsOpt, Lit("not"), Sps, OptW("that"), Lit("important"), Bnd>>)],
  [pattern |-> Re(<<Bnd, Lit("whenever"), Sps, OptW("you"),
                     Words(<<"can", "possible">>), Bnd>>)],
  [pattern |-> Re(<<Bnd, Lit("eventually"), Bnd>>)],
  [pattern |-> Re(<<Bnd, Lit("someday"), Bnd>>)],
  [pattern |-> Re(<<Bnd, Lit("no"), Sps, Lit("rush"), Bnd>>)],
  [pattern |-> Re(<<Bnd, Lit("when"), Sps, OptW("you"), Words(<<"have", "get">>), Sps,
                     OptW("a"), Words(<<"chance", "time">>), Bnd>>)],
  [pattern |-> Re(<<Bnd, Lit("priority"), Sp0, Lit(":"), Sp0, Lit("low"), Bnd>>)] >>

\* removePriorityPhrase leaving the phrase in the text
removePriorityPhrase_kept(cleanedText, pattern) == cleanedText

\* cleanedText.replace(pattern, '').trim() for a pattern with the g flag
removePriorityPhrase(cleanedText, pattern) == trim(ReplaceAll(cleanedText, pattern))

\* lines 201-252
parsePriority(text) ==
  LET Low(l) ==
        IF l # 0
        THEN [priority |-> "low",
              cleanedText |-> removePriorityPhrase(text, lowPriorityPatterns[l].pattern)]
        ELSE [priority |-> "medium", cleanedText |-> text]
      High(h, lowerText) ==
        IF h # 0
        THEN [priority |-> "high",
              cleanedText |-> removePriorityPhrase(text, highPriorityPatterns[h].pattern)]
        ELSE Low(FirstMatch(lowPriorityPatterns, lowerText, 1))
      Folded(lowerText) == High(FirstMatch(highPriorityPatterns, lowerText, 1), lowerText)
  IN Folded(Subject(text))

(***************************************************************************)
(* parseStatus                                                             *)
(***************************************************************************)
statusPatterns == <<
  [pattern |-> Re(<<Bnd, Grp(1, Words(<<"in progress", "in-progress", "working on",
                                         "started", "currently working">>)), Bnd>>),
   status |-> "in-progress"],
  [pattern |-> Re(<<Bnd, Grp(1, Words(<<"completed", "done", "finished",
                                         "already done">>)), Bnd>>),
   status |-> "completed"],
  [pattern |-> Re(<<Bnd, Grp(1, Words(<<"pending", "to do", "todo", "not started",
                                         "needs to be done">>)), Bnd>>),
   status |-> "pending"] >>

parseStatus(text) ==
  LET Hit(k) ==
        IF k = 0 THEN [status |-> "pending", cleanedText |-> text]
        ELSE [status |-> statusPatterns[k].status,
              cleanedText |-> trim(ReplaceFirst(text, statusPatterns[k].pattern))]
  IN Hit(FirstMatch(statusPatterns, Subject(text), 1))

(***************************************************************************)
(* extractTaskTitle                                                        *)
(***************************************************************************)
prefixPatterns == <<
  Re(<<Bol, OptW("i"),
        Alt(<<Ph(<<"need", "to">>), Ph(<<"have", "to">>), Lit("should"), Lit("must"),
              Ph(<<"want", "to">>), Ph(<<"going", "to">>), Lit("gonna")>>), Sps>>),
  Re(<<Bol, OptW("please"),
        Alt(<<Ph(<<"remind", "me", "to">>), Ph(<<"don't", "forget", "to">>),
              Ph(<<"remember", "to">>)>>), Sps>>),
  Re(<<Bol, OptW("i"), Alt(<<Lit("gotta"), Ph(<<"got", "to">>), Lit("wanna")>>), Sps>>),
  Re(<<Bol, Lit("make"), Sps, Lit("sure"), Sps, OptW("to")>>),
  Re(<<Bol, Lit("be"), Sps, Lit("sure"), Sps, OptW("to")>>) >>

suffixPatterns == <<
  Re(<<Plus(CommaSp), Alt(<<Lit("please"), Lit("thanks"), Ph(<<"thank", "you">>)>>),
        Opt(Lit(".")), Eol>>),
  Re(<<Plus(CommaSp), Lit("if"), Sps, OptW("you"), Words(<<"can", "could", "would">>),
        Opt(Lit(".")), Eol>>),
  Re(<<Plus(CommaSp), Lit("when"), Sps, OptW("you"),
        Alt(<<Lit("can"), Cat(<<Lit("get"), Sps, OptW("a"), Lit("chance")>>)>>),
        Opt(Lit(".")), Eol>>) >>

RECURSIVE stripEach(_, _, _)
\* for (const pattern of patterns) title = title.replace(pattern, '').trim()
stripEach(title, patterns, k) ==
  IF k > Len(patterns) THEN title
  ELSE LET Go(stripped) == CASE Len(stripped) >= 0 -> stripEach(stripped, patterns, k + 1)
       IN Go(trim(ReplaceFirst(title, patterns[k])))

\* /\s+/g and /^[,.\s]+|[,.\s]+$/g
whitespaceRun == Re(<<Plus(Sp)>>)
edgePunctuation == Re(<<Alt(<<Cat(<<Bol, Plus(PunctSp)>>), Cat(<<Plus(PunctSp), Eol>>)>>)>>)

\* lines 282-321; each statement's text is computed before the next statement
\* reads it
extractTaskTitle(text) ==
  LET Capital(t4) == CASE Len(t4) >= 0 -> Capitalize(t4)
      Edges(t3) == CASE Len(t3) >= 0 -> Capital(trim(ReplaceAll(t3, edgePunctuation)))
      Spaces(t2) == CASE Len(t2) >= 0 -> Edges(ReplaceAllBy(t2, whitespaceRun, " "))
      Suffixes(t1) == CASE Len(t1) >= 0 -> Spaces(stripEach(t1, suffixPatterns, 1))
  IN Suffixes(stripEach(text, prefixPatterns, 1))

(***************************************************************************)
(* parseVoiceCommand                                                       *)
(***************************************************************************)
\* "(.+)?": the capture group made optional
Rest_optional == Opt(Grp(1, Plus(Dot)))

\* "(.+)"
Rest == Grp(1, Plus(Dot))

addPatterns == <<
  [pattern |-> Re(<<Bol, Lit("add"), Sps, OptW("a"), OptW("new"), OptW("task"),
                     OptW("to"), Rest>>)],
  [pattern |-> Re(<<Bol, Lit("create"), Sps, OptW("a"), OptW("new"), OptW("task"), Rest>>)],
  [pattern |-> Re(<<Bol, Lit("new"), Sps, Lit("task"), Sps, Rest>>)],
  [pattern |-> Re(<<Bol, OptW("please"),
                     Alt(<<Ph(<<"remind", "me", "to">>), Ph(<<"don't", "forget", "to">>),
                           Ph(<<"remember", "to">>)>>), Sps, Rest>>)],
  [pattern |-> Re(<<Bol, OptW("i"),
                     Alt(<<Ph(<<"need", "to">>), Ph(<<"have", "to">>), Lit("should"),
                           Lit("must"), Ph(<<"want", "to">>), Lit("gotta"),
                           Ph(<<"got", "to">>)>>), Sps, Rest>>)],
  [pattern |-> Re(<<Bol, Words(<<"make", "be">>), Sps, Lit("sure"), Sps, OptW("to"), Rest>>)],
  [pattern |-> Re(<<Bol, Words(<<"schedule", "plan">>), Sps, OptW("to"), Rest>>)],
  [pattern |-> Re(<<Bol, Words(<<"put", "set">>), Sps, OptW("a"),
                     Opt(Cat(<<Lit("reminder"), Sps, OptW("to")>>)), Rest>>)] >>

completePatterns == <<
  [pattern |-> Re(<<Bol,
                     Alt(<<Lit("complete"), Lit("finish"), Lit("done"),
                           Cat(<<Lit("mark"), Sps, OptW("as"),
                                 Words(<<"done", "complete", "finished">>)>>)>>),
                     Sps, OptW("the"), OptW("task"), Rest>>)],
  [pattern |-> Re(<<Bol, OptW("i"),
                     Alt(<<Lit("finished"), Lit("completed"), Ph(<<"done", "with">>)>>),
                     Sps, Rest>>)] >>

deletePatterns == <<
  [pattern |-> Re(<<Bol,
                     Alt(<<Lit("delete"), Lit("remove"), Lit("cancel"),
                           Ph(<<"get", "rid", "of">>)>>),
                     Sps, OptW("the"), OptW("task"), Rest>>)] >>

listPatterns == <<
  [pattern |-> Re(<<Bol,
                     Alt(<<Lit("list"), Lit("show"), Lit("read"), Ph(<<"what", "are">>),
                           Ph(<<"tell", "me">>)>>),
                     Sps, OptW("my"), OptW("all"), Lit("task"), Opt(Lit("s"))>>)],
  [pattern |-> Re(<<Bol, Ph(<<"what", "do", "i">>), Sps, Words(<<"have", "need">>), Sps,
                     Ph(<<"to", "do">>)>>)],
  [pattern |-> Re(<<Bol, Words(<<"show", "list", "read">>), Sps, OptW("me"), OptW("my"),
                     Alt(<<Cat(<<Lit("to"), Opt(Lit("-")), Lit("do")>>), Lit("todo")>>),
                     Sp0, Opt(Lit("list"))>>)] >>

\* lines 349, 365 and 381: match[1].trim() is a TypeError when group 1 took no
\* part in the match
captureThrows(patterns, transcript) ==
  LET Hit(k, subject) == k # 0 /\ ~HasGroup(Find(patterns[k].pattern, subject, 0), 1)
      Folded(subject) == Hit(FirstMatch(patterns, subject, 1), subject)
  IN Folded(Subject(transcript))

\* capturedTitle with the capture group ignored: the working text stays what
\* line 331 made it
capturedTitle_whole(patterns, transcript) == trim(transcript)

\* match[1].trim() of the first pattern of the table that matches the transcript
capturedTitle(patterns, transcript) ==
  LET Folded(subject) ==
        trim(Group(transcript,
                   Find(patterns[FirstMatch(patterns, subject, 1)].pattern, subject, 0), 1))
  IN Folded(Subject(transcript))

\* listTitle with line 398 forgotten
listTitle_kept(transcript) == trim(transcript)

\* line 398: the working text of a list command
listTitle(transcript) == ""

\* defaultAction testing the transcript as it came
defaultAction_untrimmed(transcript) == IF Len(transcript) > 0 THEN "add" ELSE "unknown"

\* lines 404-407: the action when no pattern matched
defaultAction(transcript) == IF Len(trim(transcript)) > 0 THEN "add" ELSE "unknown"

\* lines 327-407: the action and the initial working text, or the TypeError of
\* a capture group that is not there
detectAction(transcript) ==
  LET Detected(folded, lowerTranscript) ==
     IF FirstMatch(addPatterns, folded, 1) # 0
     THEN [action |-> "add", taskTitle |-> capturedTitle(addPatterns, transcript),
           threw |-> captureThrows(addPatterns, transcript)]
     ELSE IF FirstMatch(completePatterns, folded, 1) # 0
     THEN [action |-> "complete", taskTitle |-> capturedTitle(completePatterns, transcript),
           threw |-> captureThrows(completePatterns, transcript)]
     ELSE IF FirstMatch(deletePatterns, folded, 1) # 0
     THEN [action |-> "delete", taskTitle |-> capturedTitle(deletePatterns, transcript),
           threw |-> captureThrows(deletePatterns, transcript)]
     ELSE IF FirstMatch(listPatterns, lowerTranscript, 1) # 0
     THEN [action |-> "list", taskTitle |-> listTitle(transcript), threw |-> FALSE]
     ELSE [action |-> defaultAction(transcript), taskTitle |-> trim(transcript),
           threw |-> FALSE]
  IN Detected(Subject(transcript), Subject(trim(toLowerCase(transcript))))

\* /\s+(by|due|for|at|on|and|but|or|so|,)\s*$/i and /\s+it'?s?\s*$/i
trailingWord ==
  Re(<<Sps, Grp(1, Words(<<"by", "due", "for", "at", "on", "and", "but", "or", "so", ",">>)),
        Sp0, Eol>>)
trailingIts == Re(<<Sps, Lit("it"), Opt(Lit("'")), Opt(Lit("s")), Sp0, Eol>>)

\* lines 422-433: the title from the text the extraction stages left
cleanTitle(text) ==
  LET Capital(t3) == CASE Len(t3) >= 0 -> Capitalize(t3)
      Its(t2) == CASE Len(t2) >= 0 -> Capital(trim(ReplaceFirst(t2, trailingIts)))
      Word(t1) == CASE Len(t1) >= 0 -> Its(ReplaceFirst(t1, trailingWord))
  IN Word(extractTaskTitle(text))

\* an optional value: <<>> is undefined
Undefined == <<>>
Some(v) == <<v>>
\* "s || undefined", and the optional dueTime
OrUndefined(s) == IF s = "" THEN Undefined ELSE Some(s)

(***************************************************************************)
(* The inputs: a transcript is an opening (a command phrase or nothing)     *)
(* followed by at most MaxPhrases phrases, words apart by one space; some   *)
(* short ones are also taken with white space around them.  The reference  *)
(* instant is new Date() of the call.                                      *)
(***************************************************************************)
MaxPhrases == 3

Openings == {"", "Add task", "Add urgent task", "This is urgent, add task", "Delete task",
             "Complete", "List my tasks"}

Phrases == {"buy milk", "urgent", "someday", "not urgent", "tomorrow at 5pm",
            "by tomorrow at 5pm"}

Join(s, p) == IF s = "" THEN p ELSE IF p = "" THEN s ELSE s \o " " \o p

RECURSIVE Bodies(_)
\* the texts of at most n phrases
Bodies(n) ==
  IF n = 0 THEN {""}
  ELSE LET B == Bodies(n - 1) IN B \cup {Join(b, p) : b \in B, p \in Phrases}

Sentences(n) == {Join(h, b) : h \in Openings, b \in Bodies(n)}

Padded == {v \o t \o w : v \in {"", " "}, t \in Sentences(1), w \in {"", " "}}

Transcripts == Sentences(MaxPhrases) \cup Padded

\* getDay() of the reference day (0 is Sunday), the milliseconds since its local
\* midnight, and getFullYear()
ReferenceInstants == {[day |-> 3, ms |-> 10 * MsPerHour, year |-> 2025]}

(***************************************************************************)
(* One call of parseVoiceCommand, stage by stage, and parseTaskFromVoice    *)
(* on top of it                                                            *)
(***************************************************************************)
VARIABLES
  pc,          \* where the call stands
  transcript,  \* the argument
  now,         \* the reference instant of the call
  action, taskTitle, priority, dueDate, dueTime, status,  \* locals of parseVoiceCommand
  command,     \* what parseVoiceCommand returned
  payload      \* what parseTaskFromVoice returned

\* the voice recorder with review modal, which calls the parser
VARIABLES
  ui,          \* the props and React state of VoiceRecorder and of its speech hook,
               \* with the updates that are not rendered yet
  rendered,    \* the props and state of the last render: what its closures see
  toggleMemo,  \* what the memoized handleToggleListening sees
  effectDue,   \* the effect of the last render has still to run
  engine,      \* the browser's SpeechRecognition
  inFlight,    \* the createTask call handleConfirmTask awaits
  createCalls  \* the tasks createTask was called with, in order

parserVars == <<pc, transcript, now, action, taskTitle, priority, dueDate, dueTime, status,
                command, payload>>

recorderVars == <<ui, rendered, toggleMemo, effectDue, engine, inFlight, createCalls>>

vars == <<pc, transcript, now, action, taskTitle, priority, dueDate, dueTime, status,
          command, payload, ui, rendered, toggleMemo, effectDue, engine, inFlight,
          createCalls>>

\* the first render of VoiceRecorder: the useState values of lines 35-38 and of
\* the speech hook; tasks is the number of tasks of the tasks prop
FirstRender ==
  [isListening |-> FALSE, transcript |-> "", isProcessing |-> FALSE,
   showReviewModal |-> FALSE, parsedTask |-> <<>>, tasks |-> 0]

\* the values the handleToggleListening of a render closes over
Closure(r) ==
  [isListening |-> r.isListening, isProcessing |-> r.isProcessing,
   showReviewModal |-> r.showReviewModal]

NoInstant == [day |-> 0, ms |-> 0, year |-> 0]

Init ==
  /\ pc = "idle"
  /\ transcript = ""
  /\ now = NoInstant
  /\ action = "unknown"
  /\ taskTitle = ""
  /\ priority = "medium"
  /\ dueDate = NoDate
  /\ dueTime = ""
  /\ status = "pending"
  /\ command = Undefined
  /\ payload = Undefined
  /\ ui = FirstRender
  /\ rendered = FirstRender
  /\ toggleMemo = Closure(FirstRender)
  /\ effectDue = FALSE
  /\ engine = "off"
  /\ inFlight = <<>>
  /\ createCalls = <<>>

\* a caller calls parseVoiceCommand(t)
Call ==
  /\ pc = "idle"
  /\ \E t \in Transcripts, n \in ReferenceInstants :
       /\ transcript' = t
       /\ now' = n
  /\ pc' = "detectAction"
  /\ UNCHANGED <<action, taskTitle, priority, dueDate, dueTime, status, command, payload>>
  /\ UNCHANGED recorderVars

\* lines 327-407
DetectAction ==
  /\ pc = "detectAction"
  /\ \E r \in {detectAction(transcript)} :
       /\ action' = r.action
       /\ taskTitle' = r.taskTitle
       /\ pc' = IF r.threw THEN "raised" ELSE "parsePriority"
  /\ UNCHANGED <<transcript, now, priority, dueDate, dueTime, status, command, payload>>
  /\ UNCHANGED recorderVars

\* lines 410-411
ParsePriority ==
  /\ pc = "parsePriority"
  /\ \E r \in {parsePriority(taskTitle)} :
       /\ priority' = r.priority
       /\ taskTitle' = r.cleanedText
  /\ pc' = "parseRelativeDate"
  /\ UNCHANGED <<transcript, now, action, dueDate, dueTime, status, command, payload>>
  /\ UNCHANGED recorderVars

\* lines 414-415
ParseRelativeDate ==
  /\ pc = "parseRelativeDate"
  /\ \E r \in {parseRelativeDate(taskTitle, now)} :
       /\ dueDate' = r.date
       /\ dueTime' = r.time
       /\ taskTitle' = r.cleanedText
       /\ pc' = IF r.threw THEN "raised" ELSE "parseStatus"
  /\ UNCHANGED <<transcript, now, action, priority, status, command, payload>>
  /\ UNCHANGED recorderVars

\* lines 418-419
ParseStatus ==
  /\ pc = "parseStatus"
  /\ \E r \in {parseStatus(taskTitle)} :
       /\ status' = r.status
       /\ taskTitle' = r.cleanedText
  /\ pc' = "extractTaskTitle"
  /\ UNCHANGED <<transcript, now, action, priority, dueDate, dueTime, command, payload>>
  /\ UNCHANGED recorderVars

\* lines 422-433
ExtractTitle ==
  /\ pc = "extractTaskTitle"
  /\ taskTitle' = cleanTitle(taskTitle)
  /\ pc' = "return"
  /\ UNCHANGED <<transcript, now, action, priority, dueDate, dueTime, status, command,
                 payload>>
  /\ UNCHANGED recorderVars

\* makeCommand handing back the trimmed transcript
makeCommand_trimmed(a, title, p, s, date, time, original) ==
  [action |-> a, taskTitle |-> OrUndefined(title), priority |-> p, status |-> s,
   dueDate |-> date, dueTime |-> OrUndefined(time), originalTranscript |-> trim(original)]

\* lines 435-443
makeCommand(a, title, p, s, date, time, original) ==
  [action |-> a, taskTitle |-> OrUndefined(title), priority |-> p, status |-> s,
   dueDate |-> date, dueTime |-> OrUndefined(time), originalTranscript |-> original]

Return ==
  /\ pc = "return"
  /\ command' = Some(makeCommand(action, taskTitle, priority, status, dueDate, dueTime,
                                 transcript))
  /\ pc' = "returned"
  /\ UNCHANGED <<transcript, now, action, taskTitle, priority, dueDate, dueTime, status,
                 payload>>
  /\ UNCHANGED recorderVars

\* makePayload falling back to the transcript as it came
makePayload_untrimmed(c, original) ==
  [title |-> IF c.taskTitle # Undefined THEN c.taskTitle[1] ELSE original,
   priority |-> IF c.priority # "" THEN c.priority ELSE "medium",
   status |-> IF c.status # "" THEN c.status ELSE "pending",
   dueDate |-> c.dueDate,
   dueTime |-> c.dueTime,
   originalTranscript |-> original]

\* lines 452-459: parseTaskFromVoice(transcript) on the command of its call
makePayload(c, original) ==
  [title |-> IF c.taskTitle # Undefined THEN c.taskTitle[1] ELSE trim(original),
   priority |-> IF c.priority # "" THEN c.priority ELSE "medium",
   status |-> IF c.status # "" THEN c.status ELSE "pending",
   dueDate |-> c.dueDate,
   dueTime |-> c.dueTime,
   originalTranscript |-> original]

ParseTaskFromVoice ==
  /\ pc = "returned"
  /\ payload' = Some(makePayload(command[1], transcript))
  /\ pc' = "projected"
  /\ UNCHANGED <<transcript, now, action, taskTitle, priority, dueDate, dueTime, status,
                 command>>
  /\ UNCHANGED recorderVars

\* the call is over: nothing of it is kept
Discard ==
  /\ pc \in {"returned", "projected", "raised"}
  /\ pc' = "idle"
  /\ transcript' = ""
  /\ now' = NoInstant
  /\ action' = "unknown"
  /\ taskTitle' = ""
  /\ priority' = "medium"
  /\ dueDate' = NoDate
  /\ dueTime' = ""
  /\ status' = "pending"
  /\ command' = Undefined
  /\ payload' = Undefined
  /\ UNCHANGED recorderVars

Next ==
  \/ Call
  \/ DetectAction
  \/ ParsePriority
  \/ ParseRelativeDate
  \/ ParseStatus
  \/ ExtractTitle
  \/ Return
  \/ ParseTaskFromVoice
  \/ Discard

Spec == Init /\ [][Next]_vars

(***************************************************************************)
(* Dictated tasks: the calls whose transcript carries a due date, a due    *)
(* time or a status phrase, on every weekday of the reference instant.     *)
(***************************************************************************)
MaxCount == 3

\* Date.prototype.getDay(): 0 is Sunday
DayNames == <<"sunday", "monday", "tuesday", "wednesday", "thursday", "friday", "saturday">>

DayPhrases ==
  {lead \o DayNames[d + 1] : lead \in {"next ", "this ", ""}, d \in 0..6}

CountPhrases ==
  {"in " \o toString(n) \o unit : n \in 1..MaxCount, unit \in {" days", " weeks", " hours"}}

KeywordPhrases ==
  {"today", "tomorrow", "day after tomorrow", "next week", "next month", "end of day",
   "end of week", "end of the week", "in 10 days", "in 1 day", "in 25 hours"}

TimePhrases ==
  {"at " \o h \o half : h \in {"1", "9", "11", "12", "13"}, half \in {"am", " pm", ":30pm"}}
    \cup {"at 0:00", "at 9:05", "at 23:59", "at 25:00", "at 9:75", "at noon", "tonight"}

StatusPhrases ==
  {"started", "done", "todo", "done started", "todo done", "todo started done",
   "done and done", "needs to be done", "must be done", "must be done today"}

DatedPhrases ==
  DayPhrases \cup CountPhrases \cup KeywordPhrases \cup TimePhrases \cup StatusPhrases
    \cup {"", "tomorrow at 9am", "friday in 2 hours", "next monday tomorrow", "on march 5",
          "by 12/25/2026", "monday tomorrow", "tomorrow monday", "friday next monday",
          "tomorrow today", "march 5 tomorrow", "at 9am tonight", "next monday tonight",
          "this evening tonight", "today tonight"}

\* tasks dictated with filler phrases and a trailing conjunction
FillerDictations ==
  {"Add task make sure to remember to call mom", "Add task buy milk, and",
   "Add task buy milk for and", "Remind me to buy milk please", "Add task buy  milk.",
   "Add task must document the API"}

Dictations ==
  ({Join(h, p) : h \in {"", "Add task buy milk"}, p \in DatedPhrases} \ {""})
    \cup FillerDictations

\* every weekday in the morning, and a Wednesday one hour before midnight
DictationInstants ==
  {[day |-> d, ms |-> 10 * MsPerHour, year |-> 2025] : d \in 0..6}
    \cup {[day |-> 3, ms |-> 23 * MsPerHour, year |-> 2025]}

\* a caller calls parseVoiceCommand(t) with a dictated task
CallDictated ==
  /\ pc = "idle"
  /\ \E t \in Dictations, n \in DictationInstants :
       /\ transcript' = t
       /\ now' = n
  /\ pc' = "detectAction"
  /\ UNCHANGED <<action, taskTitle, priority, dueDate, dueTime, status, command, payload>>
  /\ UNCHANGED recorderVars

NextDictated ==
  \/ CallDictated
  \/ DetectAction
  \/ ParsePriority
  \/ ParseRelativeDate
  \/ ParseStatus
  \/ ExtractTitle
  \/ Return
  \/ ParseTaskFromVoice
  \/ Discard

SpecDictated == Init /\ [][NextDictated]_vars

(***************************************************************************)
(* The voice recorder with review modal.  State updates made by a          *)
(* callback of the browser (a speech event, the continuation of an await)  *)
(* wait in ui until React renders; a click or a form submit is rendered    *)
(* before the next event.  lastAction, the spoken and the toast messages   *)
(* are display only and left out.                                          *)
(***************************************************************************)
MaxTasks == 2

\* what the recognizer hears
Utterances ==
  {"Add task buy milk", "Add urgent task call mom tomorrow", "tomorrow", "List my tasks",
   "Delete task buy milk", "Complete buy milk", " "}

\* the titles the user may type into the modal
EditedTitles == {"Buy bread"}

\* new Date() of the parse
RecorderInstant == [day |-> 3, ms |-> 10 * MsPerHour, year |-> 2025]

\* the Command of parseVoiceCommand(t) at the reference instant n, for a t on
\* which no handler throws
CommandOf(t, n) ==
  LET Made(a, p, d, st, title) ==
        makeCommand(a.action, title, p.priority, st.status, d.date, d.time, t)
      Titled(a, p, d, st) == Made(a, p, d, st, cleanTitle(st.cleanedText))
      Stated(a, p, d) == Titled(a, p, d, parseStatus(d.cleanedText))
      Dated(a, p) == Stated(a, p, parseRelativeDate(p.cleanedText, n))
      Rated(a) == Dated(a, parsePriority(a.taskTitle))
  IN Rated(detectAction(t))

\* processVoiceCommand opening the modal without looking at the title
processVoiceCommand_untitled(u, text) ==
  LET Run(c) ==
        IF c.action = "add"
        THEN [u EXCEPT !.parsedTask = Some(makePayload(c, text)), !.showReviewModal = TRUE]
        ELSE [u EXCEPT !.transcript = ""]
  IN IF trim(text) = "" THEN u ELSE Run(CommandOf(text, RecorderInstant))

\* lines 79-121: the state updates of processVoiceCommand(text); it calls
\* neither createTask nor any other operation on the tasks
processVoiceCommand(u, text) ==
  LET Run(c) ==
        IF c.action = "add" /\ c.taskTitle # Undefined
        THEN [u EXCEPT !.parsedTask = Some(makePayload(c, text)), !.showReviewModal = TRUE]
        ELSE [u EXCEPT !.transcript = ""]
  IN IF trim(text) = "" THEN u ELSE Run(CommandOf(text, RecorderInstant))

\* the dependencies of the effect of lines 124-128; processVoiceCommand changes
\* with the tasks prop only
effectDeps(r) == <<r.isListening, r.transcript, r.isProcessing, r.showReviewModal, r.tasks>>

\* lines 130-139: useCallback keeps the handleToggleListening it has unless
\* isListening, isProcessing, startListening or stopListening changed; the last
\* two change with isListening only
memoized(memo, u) ==
  IF <<memo.isListening, memo.isProcessing>> # <<u.isListening, u.isProcessing>>
  THEN Closure(u)
  ELSE memo

\* React renders u: the closures of the render see u, and its effect is due
\* when one of its dependencies changed
Commit(u) ==
  /\ rendered' = u
  /\ ui' = u
  /\ toggleMemo' = memoized(toggleMemo, u)
  /\ effectDue' = (effectDeps(rendered) # effectDeps(u))

\* lines 124-128: the effect of the last render runs, before any other event
Effect ==
  /\ effectDue
  /\ effectDue' = FALSE
  /\ ui' = IF /\ ~rendered.isListening /\ rendered.transcript # ""
              /\ ~rendered.isProcessing /\ ~rendered.showReviewModal
           THEN processVoiceCommand(ui, rendered.transcript)
           ELSE ui
  /\ UNCHANGED <<rendered, toggleMemo, engine, inFlight, createCalls>>
  /\ UNCHANGED parserVars

\* a render that was scheduled by an update from outside a React event
Render ==
  /\ ~effectDue
  /\ ui # rendered
  /\ Commit(ui)
  /\ UNCHANGED <<engine, inFlight, createCalls>>
  /\ UNCHANGED parserVars

\* recognition.start() of startListening, lines 191-205 of the hook: a
\* recognition that has already started is stopped and started again
startRecognition(e) == IF e = "off" THEN "starting" ELSE "restarting"

\* recognition.stop() of stopListening
stopRecognition(e) == IF e \in {"starting", "on"} THEN "stopping" ELSE e

\* lines 130-139 with the closure memo: the engine and the state it leaves
handleToggleListening(memo, e, u) ==
  IF memo.isProcessing \/ memo.showReviewModal THEN [engine |-> e, ui |-> u]
  ELSE IF memo.isListening THEN [engine |-> stopRecognition(e), ui |-> u]
  ELSE [engine |-> startRecognition(e), ui |-> [u EXCEPT !.transcript = ""]]

\* the user clicks the microphone button or presses Space or Enter on it
ToggleListening ==
  /\ ~effectDue
  /\ \E t \in {handleToggleListening(toggleMemo, engine, ui)} :
       /\ engine' = t.engine
       /\ Commit(t.ui)
  /\ UNCHANGED <<inFlight, createCalls>>
  /\ UNCHANGED parserVars

\* recognition.onstart
OnStart ==
  /\ ~effectDue
  /\ engine = "starting"
  /\ engine' = "on"
  /\ ui' = [ui EXCEPT !.isListening = TRUE]
  /\ UNCHANGED <<rendered, toggleMemo, effectDue, inFlight, createCalls>>
  /\ UNCHANGED parserVars

\* recognition.onresult with a final result
OnResult ==
  /\ ~effectDue
  /\ engine = "on"
  /\ ui.transcript = ""
  /\ \E heard \in Utterances : ui' = [ui EXCEPT !.transcript = ui.transcript \o heard]
  /\ UNCHANGED <<rendered, toggleMemo, effectDue, engine, inFlight, createCalls>>
  /\ UNCHANGED parserVars

\* recognition.onend, also after onerror; the timer of a restart, line 200,
\* starts the recognition again when it has ended by then
OnEnd ==
  /\ ~effectDue
  /\ engine \in {"on", "stopping", "restarting"}
  /\ engine' \in (IF engine = "restarting" THEN {"starting", "off"} ELSE {"off"})
  /\ ui' = [ui EXCEPT !.isListening = FALSE]
  /\ UNCHANGED <<rendered, toggleMemo, effectDue, inFlight, createCalls>>
  /\ UNCHANGED parserVars

\* the task the modal submits: the parsed task with the fields as edited
Submitted == {rendered.parsedTask[1]} \cup
             {[rendered.parsedTask[1] EXCEPT !.title = t] : t \in EditedTitles}

\* the user submits the form of the modal: handleConfirmTask up to its await,
\* lines 41-53
ConfirmTask ==
  /\ ~effectDue
  /\ rendered.parsedTask # Undefined /\ rendered.showReviewModal
  /\ Len(createCalls) < MaxTasks
  /\ \E task \in Submitted :
       /\ createCalls' = Append(createCalls, task)
       /\ inFlight' = Some(task)
  /\ Commit([ui EXCEPT !.showReviewModal = FALSE, !.isProcessing = TRUE])
  /\ UNCHANGED engine
  /\ UNCHANGED parserVars

\* createTask settles, lines 55-69: the finally block; a task that was stored
\* shows in the tasks prop
CreateTaskSettles ==
  /\ ~effectDue
  /\ inFlight # Undefined
  /\ inFlight' = Undefined
  /\ \E stored \in BOOLEAN :
       ui' = [ui EXCEPT !.isProcessing = FALSE, !.parsedTask = Undefined, !.transcript = "",
                        !.tasks = IF stored THEN @ + 1 ELSE @]
  /\ UNCHANGED <<rendered, toggleMemo, effectDue, engine, createCalls>>
  /\ UNCHANGED parserVars

\* the user closes the modal: handleCancelReview, lines 72-76
CancelReview ==
  /\ ~effectDue
  /\ rendered.parsedTask # Undefined /\ rendered.showReviewModal
  /\ Commit([ui EXCEPT !.showReviewModal = FALSE, !.parsedTask = Undefined,
                       !.transcript = ""])
  /\ UNCHANGED <<engine, inFlight, createCalls>>
  /\ UNCHANGED parserVars

NextRecorder ==
  \/ ToggleListening
  \/ OnStart
  \/ OnResult
  \/ OnEnd
  \/ Render
  \/ Effect
  \/ ConfirmTask
  \/ CreateTaskSettles
  \/ CancelReview

SpecRecorder == Init /\ [][NextRecorder]_vars

(***************************************************************************)
(* The properties.  result is the Command of the call once it returned;    *)
(* workingText is the text detectAction hands to parsePriority.            *)
(***************************************************************************)
result == command[1]

workingText == detectAction(transcript).taskTitle

Actions == {"add", "complete", "delete", "list", "unknown"}
Priorities == {"low", "medium", "high"}
Statuses == {"pending", "in-progress", "completed"}

\* whether some pattern of the table matches the text
MatchesSome(patterns, text) == FirstMatch(patterns, Subject(text), 1) # 0

\* whether the family has a pattern matching the transcript: add, complete and
\* delete read the transcript, list its trimmed lower-case form
FamilyMatches(family, t) ==
  CASE family = "add" -> MatchesSome(addPatterns, t)
    [] family = "complete" -> MatchesSome(completePatterns, t)
    [] family = "delete" -> MatchesSome(deletePatterns, t)
    [] family = "list" -> MatchesSome(listPatterns, trim(toLowerCase(t)))

Families == <<"add", "complete", "delete", "list">>

FamilyPatterns(family) ==
  CASE family = "add" -> addPatterns
    [] family = "complete" -> completePatterns
    [] family = "delete" -> deletePatterns
    [] family = "list" -> listPatterns

\* the first family, in the order of Families, with a pattern matching t; 0 if none
FirstFamily(t) ==
  IF \E k \in 1..Len(Families) : FamilyMatches(Families[k], t)
  THEN CHOOSE k \in 1..Len(Families) :
         /\ FamilyMatches(Families[k], t)
         /\ \A j \in 1..(k - 1) : ~FamilyMatches(Families[j], t)
  ELSE 0

\* capture group 1 of the first pattern of the table matching t, trimmed
Capture(patterns, t) ==
  LET k == CHOOSE i \in 1..Len(patterns) :
             /\ Exec(patterns[i].pattern, t).found
             /\ \A j \in 1..(i - 1) : ~Exec(patterns[j].pattern, t).found
  IN trim(Group(t, Exec(patterns[k].pattern, t), 1))

\* titles with no priority, status, date, time or filler phrase in them
PlainTitles == {"buy milk", "buy milk buy milk"}

\* the start of the day after the reference day
Tomorrow == Instant(1, 0, 0)

\* C1: parseVoiceCommand is total: whatever the transcript, no step of a call
\* raises, and the Command it returns has an action among
\* add/complete/delete/list/unknown, a priority among low/medium/high and a
\* status among pending/in-progress/completed.
C1_Total ==
  /\ pc # "raised"
  /\ pc = "returned" =>
       /\ command # Undefined
       /\ result.action \in Actions
       /\ result.priority \in Priorities
       /\ result.status \in Statuses

\* a transcript of white space only has returned a Command
C1_Witness ==
  /\ pc = "returned"
  /\ transcript = "  "
  /\ result.action = "unknown"
  /\ result.priority = "medium"
  /\ result.status = "pending"

\* C2: the originalTranscript of the Command, and of the payload of
\* parseTaskFromVoice, is the caller's transcript exactly, neither trimmed nor
\* case-folded nor touched by an extraction stage.
C2_OriginalTranscript ==
  /\ pc \in {"returned", "projected"} => result.originalTranscript = transcript
  /\ pc = "projected" => payload[1].originalTranscript = transcript

\* a transcript that trimming, case folding and the stages all change came back
\* as it was given
C2_Witness ==
  /\ pc = "projected"
  /\ transcript = " Add urgent task tomorrow at 5pm "
  /\ trim(transcript) # transcript
  /\ toLowerCase(transcript) # transcript
  /\ result.taskTitle # Some(transcript)
  /\ payload[1].originalTranscript = transcript

\* C3, as the specification states it: the action is unknown exactly when the
\* transcript is empty, and a non-empty transcript that matches no family is an
\* add whose working text is the entire transcript.
C3_UnknownIffEmpty ==
  pc = "parsePriority" =>
    /\ action = "unknown" <=> transcript = ""
    /\ transcript # "" => action \in {"add", "complete", "delete", "list"}
    /\ (transcript # "" /\ FirstFamily(transcript) = 0) =>
         (action = "add" /\ taskTitle = transcript)

\* C3, as the code has it: the action is unknown exactly when the transcript is
\* empty once trimmed (empty or white space only); every other transcript gets an
\* action among add/complete/delete/list, and one that matches no family is an add
\* whose working text is the trimmed transcript.
C3_UnknownIffBlank ==
  pc = "parsePriority" =>
    /\ action = "unknown" <=> trim(transcript) = ""
    /\ trim(transcript) # "" => action \in {"add", "complete", "delete", "list"}
    /\ (trim(transcript) # "" /\ FirstFamily(transcript) = 0) =>
         (action = "add" /\ taskTitle = trim(transcript))

\* a transcript of white space only got the action unknown
C3_Witness ==
  /\ pc = "parsePriority"
  /\ transcript # ""
  /\ trim(transcript) = ""
  /\ action = "unknown"

\* C4: the action is that of the first of the families add, complete, delete,
\* list that has a pattern matching the transcript, and the initial working text
\* is the (trimmed) capture group of that pattern, empty for list; 'Delete task X'
\* gives the action delete and the title X with its first letter capitalized.
C4_FirstFamilyWins ==
  /\ pc = "parsePriority" =>
       LET f == FirstFamily(transcript) IN
       f # 0 =>
         /\ action = Families[f]
         /\ taskTitle = IF Families[f] = "list" THEN ""
                        ELSE Capture(FamilyPatterns(Families[f]), transcript)
  /\ \A x \in PlainTitles :
       (pc = "returned" /\ transcript = "Delete task " \o x) =>
         (result.action = "delete" /\ result.taskTitle = Some(Capitalize(x)))

\* 'Delete task buy milk' came back as the deletion of 'Buy milk'
C4_Witness ==
  /\ pc = "returned"
  /\ transcript = "Delete task buy milk"
  /\ result.action = "delete"
  /\ result.taskTitle = Some("Buy milk")

\* C5: a Command whose action is list has no title, priority medium, status
\* pending and neither dueDate nor dueTime, whatever follows the list phrase.
C5_ListIsBare ==
  (pc = "returned" /\ result.action = "list") =>
    /\ result.taskTitle = Undefined
    /\ result.priority = "medium"
    /\ result.status = "pending"
    /\ result.dueDate = NoDate
    /\ result.dueTime = Undefined

\* a list phrase followed by a priority cue, a date and a time came back bare
C5_Witness ==
  /\ pc = "returned"
  /\ transcript = "List my tasks urgent tomorrow at 5pm"
  /\ result.action = "list"
  /\ result.priority = "medium"
  /\ result.dueTime = Undefined

\* C6: 'Add task X tomorrow at 5pm', X a plain title, gives action add, title X
\* with its first letter capitalized, dueDate the reference day plus one day,
\* dueTime '17:00', priority medium and status pending.
C6_AddTomorrowAtFive ==
  \A x \in PlainTitles :
    (pc = "returned" /\ transcript = "Add task " \o x \o " tomorrow at 5pm") =>
      /\ result.action = "add"
      /\ result.taskTitle = Some(Capitalize(x))
      /\ result.dueDate = Tomorrow
      /\ result.dueTime = Some("17:00")
      /\ result.priority = "medium"
      /\ result.status = "pending"

\* 'Add task buy milk tomorrow at 5pm' came back as 'Buy milk' due at 17:00
C6_Witness ==
  /\ pc = "returned"
  /\ transcript = "Add task buy milk tomorrow at 5pm"
  /\ result.taskTitle = Some("Buy milk")
  /\ result.dueTime = Some("17:00")

\* C7: 'This is urgent, add task X', X a plain title, gives action add, priority
\* high and the title X with its first letter capitalized: neither the priority
\* clause nor 'add task' stays in the title.
C7_PriorityClauseFirst ==
  \A x \in PlainTitles :
    (pc = "returned" /\ transcript = "This is urgent, add task " \o x) =>
      /\ result.action = "add"
      /\ result.priority = "high"
      /\ result.taskTitle = Some(Capitalize(x))

\* C8: 'Add urgent task X by tomorrow at 5pm', X a plain title, gives priority
\* high, dueDate the reference day plus one, dueTime '17:00' and the title X
\* alone, up to the capitalization of its first letter.
C8_ReadmeExample ==
  \A x \in PlainTitles :
    (pc = "returned" /\ transcript = "Add urgent task " \o x \o " by tomorrow at 5pm") =>
      /\ result.priority = "high"
      /\ result.dueDate = Tomorrow
      /\ result.dueTime = Some("17:00")
      /\ result.taskTitle \in {Some(x), Some(Capitalize(x))}

\* every low-priority pattern that matches the text before still matches the
\* text after
LowCuesKept(before, after) ==
  \A k \in 1..Len(lowPriorityPatterns) :
    MatchesSome(<<lowPriorityPatterns[k]>>, before)
      => MatchesSome(<<lowPriorityPatterns[k]>>, after)

\* C9: once parsePriority has run, a working text with a high cue and a low cue
\* has given priority high and kept every low cue, and a working text with no
\* cue of either family has given priority medium and is unchanged.
C9_HighBeforeLow ==
  pc = "parseRelativeDate" =>
    LET high == MatchesSome(highPriorityPatterns, workingText)
        low == MatchesSome(lowPriorityPatterns, workingText)
    IN /\ (high /\ low) => (priority = "high" /\ LowCuesKept(workingText, taskTitle))
       /\ (~high /\ ~low) => (priority = "medium" /\ taskTitle = workingText)

\* the text with the first match of the pattern cut out
FirstSpanRemoved(text, patterns) ==
  ReplaceFirst(text, patterns[FirstMatch(patterns, Subject(text), 1)].pattern)

\* C10: once parsePriority has hit, the residual text is the working text with
\* one occurrence of the phrase, the first match of the pattern that hit, cut
\* out (and the ends trimmed); every other occurrence is still there.
C10_OneOccurrenceRemoved ==
  (pc = "parseRelativeDate" /\ priority # "medium") =>
    taskTitle = trim(FirstSpanRemoved(workingText,
                                      IF priority = "high" THEN highPriorityPatterns
                                      ELSE lowPriorityPatterns))

RECURSIVE CutEach(_, _, _)
\* the text with every match of every pattern from the k-th on replaced by a space
CutEach(text, patterns, k) ==
  IF k > Len(patterns) THEN text
  ELSE LET Go(cut) == CASE Len(cut) >= 0 -> CutEach(cut, patterns, k + 1)
       IN Go(ReplaceAllBy(text, patterns[k].pattern, " "))

\* the text holds a low cue, and nothing outside its low cues is a high cue
OnlyLowCue(text) ==
  /\ MatchesSome(lowPriorityPatterns, text)
  /\ ~MatchesSome(highPriorityPatterns, CutEach(text, lowPriorityPatterns, 1))

\* C11: once parsePriority has run, a working text whose only priority cue is a
\* phrase of the low family ('not urgent', 'not important', 'someday', ...) has
\* priority low.
C11_LowCueIsLow ==
  (pc = "parseRelativeDate" /\ OnlyLowCue(workingText)) => priority = "low"

\* the status families in the order of the claim
StatusFamilies == <<"in-progress", "completed", "pending">>

\* the first family with a phrase somewhere in the text, 0 when there is none
StatusFamily(text) ==
  IF \E k \in 1..3 : Exec(statusPatterns[k].pattern, text).found
  THEN CHOOSE k \in 1..3 :
         /\ Exec(statusPatterns[k].pattern, text).found
         /\ \A j \in 1..(k - 1) : ~Exec(statusPatterns[j].pattern, text).found
  ELSE 0

\* the text without the span of the match m
SpanCut(text, m) == SubSeq(text, 1, m.start) \o SubSeq(text, m.end + 1, Len(text))

\* C12: the status stage sets the status of the first of the families
\* in-progress, completed, pending that has a phrase anywhere in its text, and
\* removes the first span that family matched and nothing else (the ends are
\* trimmed); without a status phrase the status is pending and the text unchanged.
C12_StatusFamilies ==
  [][pc = "parseStatus" =>
       LET k == StatusFamily(taskTitle) IN
       IF k = 0 THEN status' = "pending" /\ taskTitle' = taskTitle
       ELSE /\ status' = StatusFamilies[k] /\ status' = statusPatterns[k].status
            /\ taskTitle' = trim(SpanCut(taskTitle, Exec(statusPatterns[k].pattern, taskTitle)))
    ]_vars

\* 'done' stands before 'started', yet in-progress won and only 'started' went;
C12_Witness ==
  /\ pc = "extractTaskTitle"
  /\ transcript = "Add task buy milk done started"
  /\ status = "in-progress"
  /\ taskTitle = "buy milk done"

\* the stage that follows each stage
StageAfter ==
  [detectAction |-> "parsePriority", parsePriority |-> "parseRelativeDate",
   parseRelativeDate |-> "parseStatus", parseStatus |-> "extractTaskTitle",
   extractTaskTitle |-> "return"]

\* the working text holds 'must be done', no priority cue that is tried before
\* it, and no status phrase outside it
MustBeDone ==
  /\ FirstMatch(highPriorityPatterns, Subject(workingText), 1) = 9
  /\ StatusFamily(CutEach(workingText, <<highPriorityPatterns[9]>>, 1)) = 0

\* C13: the stages run in the order action, priority, date/time, status, title,
\* each on the text the one before left, so that a phrase an earlier stage
\* consumed is not seen later: a working text with 'must be done' ends with
\* priority high and status pending, not completed.
C13_StageOrder ==
  [][/\ pc \in DOMAIN StageAfter => pc' \in {StageAfter[pc], "raised"}
     /\ (pc = "parsePriority" /\ MustBeDone)
          => (priority' = "high" /\ ~Exec(statusPatterns[2].pattern, taskTitle').found)
     /\ (pc = "parseStatus" /\ MustBeDone)
          => (priority = "high" /\ status' = "pending")
    ]_vars

\* 'must be done' made the task high and left it pending
C13_Witness ==
  /\ pc = "returned"
  /\ transcript = "Add task buy milk must be done"
  /\ result.priority = "high"
  /\ result.status = "pending"
  /\ result.taskTitle = Some("Buy milk")

IsDigits(s) == \A i \in 1..Len(s) : SubSeq(s, i, i) \in Digits

\* 'HH:MM' with HH in 00..23 and MM in 00..59
ValidTime(s) ==
  /\ Len(s) = 5
  /\ SubSeq(s, 3, 3) = ":"
  /\ IsDigits(SubSeq(s, 1, 2)) /\ parseInt(SubSeq(s, 1, 2)) <= 23
  /\ IsDigits(SubSeq(s, 4, 5)) /\ parseInt(SubSeq(s, 4, 5)) <= 59

\* the 24-hour hour of H am / H pm, H in 1..12
Hour24(h, half) ==
  IF half = "pm" /\ h # 12 THEN h + 12 ELSE IF half = "am" /\ h = 12 THEN 0 ELSE h

\* C14: a dueTime in a Command is a valid 24-hour 'HH:MM', whatever digits the
\* 'at H[:MM] am|pm' and 'at H:MM' patterns took; 'at H am' and 'at H pm', H in
\* 1..12, give hour H + 12 for pm and H # 12, 0 for am and H = 12, H otherwise.
C14_ValidTime ==
  pc = "returned" =>
    /\ result.dueTime # Undefined => ValidTime(result.dueTime[1])
    /\ \A h \in 1..12, half \in {"am", "pm"} :
         transcript = "at " \o toString(h) \o half =>
           result.dueTime = Some(padStart2(toString(Hour24(h, half))) \o ":00")

\* the days from weekday c to the first occurrence of weekday t after it
FirstOccurrence(t, c) == IF (t - c + 7) % 7 = 0 THEN 7 ELSE (t - c + 7) % 7

\* the start of the day n days after the reference day
ExpectedDay(n) == [NoDate EXCEPT !.k = "instant", !.days = n]

\* C15: on every reference weekday, 'next <weekday>' is the second future
\* occurrence of that weekday, strictly more than 7 days after the reference day
\* (on a Wednesday, 'next monday' is 12 days later).
C15_NextWeekday ==
  \A t \in 0..6 :
    (pc = "parseStatus" /\ transcript = "next " \o DayNames[t + 1]) =>
      /\ dueDate = ExpectedDay(FirstOccurrence(t, now.day) + 7)
      /\ dueDate.days > 7

\* C16: 'day after tomorrow' resolves dueDate to the start of the reference day
\* plus 2 days, and the whole phrase leaves the residual text.
C16_DayAfterTomorrow ==
  /\ (pc = "parseStatus" /\ transcript = "day after tomorrow") =>
       (dueDate = ExpectedDay(2) /\ taskTitle = "")
  /\ (pc = "parseStatus" /\ transcript = "Add task buy milk day after tomorrow") =>
       (dueDate = ExpectedDay(2) /\ taskTitle = "buy milk")

\* the relative keywords with the days each adds
RelativeDays ==
  {<<"today", 0>>, <<"tomorrow", 1>>, <<"next week", 7>>, <<"next month", 30>>,
   <<"end of day", 0>>, <<"in 1 day", 1>>, <<"in 10 days", 10>>}
    \cup {<<"in " \o toString(n) \o " days", n>> : n \in 1..MaxCount}
    \cup {<<"in " \o toString(n) \o " weeks", 7 * n>> : n \in 1..MaxCount}

\* C17: a text whose only date phrase is a relative keyword has its dueDate at
\* the start of the reference day plus a fixed number of days: today 0, tomorrow
\* 1, 'next week' 7, 'next month' 30, 'in N days' N, 'in N weeks' 7N, 'end of
\* day' 0.
C17_RelativeDays ==
  \A e \in RelativeDays, h \in {"", "Add task buy milk"} :
    (pc = "parseStatus" /\ transcript = Join(h, e[1])) => dueDate = ExpectedDay(e[2])

\* 'in 3 weeks' came out 21 days after the reference day
C17_Witness ==
  /\ pc = "parseStatus"
  /\ transcript = "Add task buy milk in 3 weeks"
  /\ dueDate = ExpectedDay(21)
  /\ taskTitle = "buy milk"

EndOfWeek ==
  {Join(h, p) : h \in {"", "Add task buy milk"}, p \in {"end of week", "end of the week"}}

\* C18: on every reference weekday c, 'end of week' is the reference day plus
\* d days, d = (5 - c + 7) mod 7 or 7 when that is 0: d is in 1..7, the day is a
\* Friday, and on a Friday it is the Friday one week later.
C18_EndOfWeek ==
  (pc = "parseStatus" /\ transcript \in EndOfWeek) =>
    /\ dueDate.k = "instant" /\ dueDate.hours = 0 /\ dueDate.ms = 0
    /\ dueDate.days \in 1..7
    /\ (now.day + dueDate.days) % 7 = 5
    /\ now.day = 5 => dueDate.days = 7
    /\ \E d \in {(5 - now.day + 7) % 7} : dueDate.days = IF d = 0 THEN 7 ELSE d

\* on a Friday, 'end of week' came out seven days later
C18_Witness ==
  /\ pc = "parseStatus"
  /\ transcript = "end of week"
  /\ now.day = 5
  /\ dueDate = ExpectedDay(7)

\* the counts N of the 'in N hours' transcripts
HourCounts == (1..MaxCount) \cup {25}

\* the date stage read an 'in N hours' phrase
InHours == Exec(datePatterns[9].pattern, workingText).found

\* C19: 'in N hours' resolves dueDate to the reference instant plus N hours
\* exactly, whatever calendar day that falls on; every other date rule resolves
\* it to the local midnight of a day: the start of the reference day plus a whole
\* number of days, or an explicit date.
C19_HoursFromNow ==
  pc = "parseStatus" =>
    /\ \A n \in HourCounts, h \in {"", "Add task buy milk"} :
         transcript = Join(h, "in " \o toString(n) \o " hours") =>
           dueDate = [ExpectedDay(0) EXCEPT !.hours = n, !.ms = now.ms]
    /\ (dueDate.k = "instant" /\ ~InHours) => (dueDate.hours = 0 /\ dueDate.ms = 0)
    /\ dueDate.k = "ymd" => (~InHours /\ dueDate.hours = 0 /\ dueDate.ms = 0)

\* at 23:00, 'in 2 hours' came out on the next calendar day
C19_Witness ==
  /\ pc = "parseStatus"
  /\ transcript = "in 2 hours"
  /\ now.ms = 23 * MsPerHour
  /\ dueDate.hours = 2
  /\ dueDate.hours * MsPerHour + dueDate.ms > 24 * MsPerHour

\* the offset of 'this <weekday>' and of a bare '<weekday>', target t, reference c
ThisOffset(t, c) == IF t - c < 0 THEN t - c + 7 ELSE t - c
BareOffset(t, c) == IF t - c <= 0 THEN t - c + 7 ELSE t - c

\* C20: 'this <weekday>' resolves to the reference day plus t - c, plus 7 only
\* when that is negative: 0..6, and 0 when t = c; a bare '<weekday>' resolves to
\* the reference day plus t - c, plus 7 when that is zero or negative: 1..7, and 7
\* when t = c.
C20_WeekdayOffsets ==
  \A t \in 0..6 :
    /\ (pc = "parseStatus" /\ transcript = "this " \o DayNames[t + 1]) =>
         /\ dueDate = ExpectedDay(ThisOffset(t, now.day))
         /\ dueDate.days \in 0..6
         /\ t = now.day => dueDate.days = 0
    /\ (pc = "parseStatus" /\ transcript = DayNames[t + 1]) =>
         /\ dueDate = ExpectedDay(BareOffset(t, now.day))
         /\ dueDate.days \in 1..7
         /\ t = now.day => dueDate.days = 7

\* on a Wednesday, 'this wednesday' came out as the reference day itself
C20_Witness ==
  /\ pc = "parseStatus"
  /\ transcript = "this wednesday"
  /\ now.day = 3
  /\ dueDate = ExpectedDay(0)

\* the date rules in the order the date stage tries them
DateRules == nextDayOfWeekPatterns \o datePatterns \o dayOfWeekPatterns \o specificDatePatterns

\* the first date rule with a phrase somewhere in the text, 0 when there is none
FiredRule(text) ==
  IF \E k \in DOMAIN DateRules : Exec(DateRules[k].pattern, text).found
  THEN CHOOSE k \in DOMAIN DateRules :
         /\ Exec(DateRules[k].pattern, text).found
         /\ \A j \in 1..(k - 1) : ~Exec(DateRules[j].pattern, text).found
  ELSE 0

\* the span of m lies inside the span of n
Inside(m, n) == n.found /\ n.start <= m.start /\ m.end <= n.end

\* rule k fired on the text timed, which the time rule left, and gave residual:
\* its first span went and nothing else, and the phrase of every other rule,
\* unless it is a part of the fired phrase, is still there
OnlyFiredRuleCut(k, timed, residual) ==
  LET Fired(m) ==
        /\ residual = (IF m.found THEN trim(SpanCut(timed, m)) ELSE timed)
        /\ \A j \in DOMAIN DateRules \ {k} :
             LET Other(n) == (n.found /\ ~Inside(n, m)) =>
                               Exec(DateRules[j].pattern, residual).found
             IN Other(Exec(DateRules[j].pattern, timed))
  IN Fired(Exec(DateRules[k].pattern, timed))

\* C21: at most one date rule fires per parse, the first in the order 'next
\* <weekday>', relative keyword, 'this'/bare weekday, explicit date (and in the
\* listed order within a family) that has a phrase in the text, wherever it
\* stands; the phrases of the rules that did not fire stay in the residual text:
\* with 'tomorrow' and 'monday' the date is the reference day plus 1 and 'monday'
\* stays.
C21_OneDateRule ==
  [][(pc = "parseRelativeDate" /\ pc' = "parseStatus") =>
       LET Stage(k, timed) ==
             /\ (k = 0) = (dueDate' = NoDate)
             /\ k = 0 => taskTitle' = timed
             /\ k > 0 => OnlyFiredRuleCut(k, timed, taskTitle')
             /\ (Exec(DateRules[10].pattern, taskTitle).found
                   /\ ~(\E j \in 1..9 : Exec(DateRules[j].pattern, taskTitle).found)
                   /\ Exec(DateRules[26].pattern, taskTitle).found)
                  => (dueDate' = ExpectedDay(1)
                        /\ Exec(DateRules[26].pattern, taskTitle').found)
       IN Stage(FiredRule(taskTitle), parseTime(taskTitle, Subject(taskTitle)).cleanedText)
    ]_vars

\* C22: the title normalizer (extractTaskTitle, the strip of a trailing
\* preposition or conjunction, the capitalization) is idempotent: applied to the
\* title it produced, it returns that title unchanged.
C22_NormalizerIdempotent ==
  pc = "return" => cleanTitle(taskTitle) = taskTitle

\* a white space character, a comma or a period
IsEdge(c) == c \in WhiteSpace \cup {",", "."}

\* C23: the title of the returned Command is undefined or a non-empty string
\* without leading or trailing white space, comma or period, without a run of
\* two or more white space characters, and not starting with a lower-case
\* letter; it is never the empty string.
C23_TitleShape ==
  (pc = "returned" /\ result.taskTitle # Undefined) =>
    LET Shaped(t) ==
          /\ Len(t) > 0
          /\ ~IsEdge(SubSeq(t, 1, 1))
          /\ ~IsEdge(SubSeq(t, Len(t), Len(t)))
          /\ \A i \in 1..(Len(t) - 1) :
               ~(SubSeq(t, i, i) \in WhiteSpace /\ SubSeq(t, i + 1, i + 1) \in WhiteSpace)
          /\ SubSeq(t, 1, 1) \notin LowerLetters
    IN Shaped(result.taskTitle[1])

\* the payload parseTaskFromVoice returned
parsed == payload[1]

\* C24: the payload of parseTaskFromVoice has the Command's title when that is
\* defined and the trimmed transcript otherwise, so a title that is not empty
\* whenever the transcript holds a character that is not white space; its
\* priority, status, dueDate and dueTime are those of the Command of the same
\* text at the same reference instant.
C24_Payload ==
  pc = "projected" =>
    /\ parsed.title = (IF taskTitle # "" THEN taskTitle ELSE trim(transcript))
    /\ result.taskTitle # Undefined => parsed.title = result.taskTitle[1]
    /\ trim(transcript) # "" => parsed.title # ""
    /\ parsed.priority = priority /\ parsed.priority = result.priority
    /\ parsed.status = status /\ parsed.status = result.status
    /\ parsed.dueDate = dueDate /\ parsed.dueDate = result.dueDate
    /\ parsed.dueTime = OrUndefined(dueTime) /\ parsed.dueTime = result.dueTime

\* a transcript that is all date and time: the title fell back to it, trimmed
C24_Witness ==
  /\ pc = "projected"
  /\ transcript = " tomorrow at 5pm "
  /\ result.taskTitle = Undefined
  /\ parsed.title = "tomorrow at 5pm"
  /\ parsed.dueTime = Some("17:00")
  /\ parsed.dueDate = ExpectedDay(1)

\* the word 'tonight'
TonightWord == Re(<<Bnd, Lit("tonight"), Bnd>>)
HasTonight(text) == Exec(TonightWord, text).found

\* the text holds 'tonight' exactly once
TonightOnce(text) ==
  LET Once(m) == m.found /\ ~HasTonight(SubSeq(text, m.end + 1, Len(text)))
  IN Once(Exec(TonightWord, text))

\* a rule that is tried before the 'tonight' rules has a phrase in the text: a
\* clock time or a named part of the day, a 'next <weekday>' or 'today'
BeforeTonight(text) ==
  \/ \E j \in 1..5 : Exec(timePatterns[j].pattern, text).found
  \/ \E j \in 1..8 : Exec(DateRules[j].pattern, text).found

\* the date stage made 'tonight' 21:00 of the reference day and took the word
TonightResolved ==
  /\ dueTime' = "21:00"
  /\ dueDate' = ExpectedDay(0)
  /\ ~HasTonight(taskTitle')

\* C26 as stated: a working text containing the word 'tonight' yields dueTime
\* '21:00' and dueDate the start of the reference day, and the word is not in the
\* residual text.
C26_Tonight ==
  [][(pc = "parseRelativeDate" /\ HasTonight(taskTitle)) => TonightResolved]_vars

\* C26 amended: a working text with the word 'tonight' once, and with no phrase
\* of a rule that is tried before the 'tonight' rules, yields dueTime '21:00' and
\* dueDate the start of the reference day: the date rule reads the text as it
\* came, although the time rule has taken the word out of the residual text; the
\* word is not in the residual text nor in the title.
C26_TonightAlone ==
  [][/\ (pc = "parseRelativeDate" /\ TonightOnce(taskTitle) /\ ~BeforeTonight(taskTitle))
          => (pc' = "parseStatus" /\ TonightResolved)
     /\ (pc = "return" /\ TonightOnce(workingText) /\ ~BeforeTonight(workingText))
          => (dueTime = "21:00" /\ dueDate = ExpectedDay(0) /\ ~HasTonight(taskTitle))
    ]_vars

\* 'buy milk tonight' is due today at 21:00
C26_Witness ==
  /\ pc = "returned"
  /\ transcript = "Add task buy milk tonight"
  /\ result.dueTime = Some("21:00")
  /\ result.dueDate = ExpectedDay(0)
  /\ result.taskTitle = Some("Buy milk")

\* the fields of a Command but originalTranscript
Parse(c) == <<c.action, c.taskTitle, c.priority, c.status, c.dueDate, c.dueTime>>

\* C27: white space in front of or behind the transcript does not influence the
\* parse: the Command has the action, title, priority, status, dueDate and
\* dueTime of the Command of the trimmed transcript at the same instant.
C27_PaddingIgnored ==
  (pc = "returned" /\ transcript # trim(transcript)) =>
    Parse(result) = Parse(CommandOf(trim(transcript), now))

RECURSIVE WordsFrom(_, _, _)
\* the words of s from position i on, after the letters of word: a word is a
\* longest run of characters that are no white space, comma or period
WordsFrom(s, i, word) ==
  IF i > Len(s) THEN (IF word = "" THEN <<>> ELSE <<word>>)
  ELSE IF IsEdge(SubSeq(s, i, i))
       THEN (IF word = "" THEN <<>> ELSE <<word>>) \o WordsFrom(s, i + 1, "")
       ELSE WordsFrom(s, i + 1, word \o SubSeq(s, i, i))

WordsOf(s) == WordsFrom(s, 1, "")

RECURSIVE InOrder(_, _, _, _)
\* the words ws from the i-th on stand among the words vs from the j-th on, in
\* this order; the first may have got a capital
InOrder(ws, i, vs, j) ==
  IF i > Len(ws) THEN TRUE
  ELSE IF j > Len(vs) THEN FALSE
  ELSE IF ws[i] = vs[j] \/ (i = 1 /\ ws[i] = Capitalize(vs[j]))
       THEN InOrder(ws, i + 1, vs, j + 1)
       ELSE InOrder(ws, i, vs, j + 1)

\* C28: extraction removes whole phrases only: each word of the returned title
\* is a word of the transcript, up to the capital of the title's first letter,
\* in the order of the transcript; no stage leaves a fragment of a word.
C28_WholeWords ==
  (pc = "returned" /\ result.taskTitle # Undefined) =>
    InOrder(WordsOf(result.taskTitle[1]), 1, WordsOf(transcript), 1)

\* the task the modal shows
shown == rendered.parsedTask[1]

\* the Command of the transcript the effect hands to processVoiceCommand
heardCommand == CommandOf(rendered.transcript, RecorderInstant)

StartsListening == engine' # engine /\ engine' \in {"starting", "restarting"}
StopsListening == engine' # engine /\ engine' = "stopping"

\* C30: while the review modal is open (showReviewModal true) or a task creation
\* is in progress (isProcessing true), the microphone toggle neither starts nor
\* stops listening, whatever the renders and state updates before it, also when
\* the toggle callback was memoized before the modal opened.  The modal counts
\* as open, and the creation as in progress, once React has rendered them.
C30_ToggleInert ==
  [][(rendered.showReviewModal \/ rendered.isProcessing)
       => (~StartsListening /\ ~StopsListening)]_vars
====
